---- MODULE Spec2Model ----
(***************************************************************************)
(* A model of the SPV verifier of electrum/verifier.py: the SPV job's      *)
(* state (merkle_roots, requested_merkle, the chain it follows), its main  *)
(* loop, the tasks it spawns, and the pure Merkle-root recomputation       *)
(* hash_merkle_root.                                                        *)
(***************************************************************************)
EXTENDS Integers, Sequences, FiniteSets, TLC

(***************************************************************************)
(* Bounds of the model.                                                     *)
(***************************************************************************)
\* depth of the Merkle trees handed to hash_merkle_root
MaxDepth == 2
\* height of the last block the two header chains have in common
ForkHeight == 1
\* calls of remove_spv_proof_for_tx from outside the job
MaxRemovals == 1

\* length of the key lists handed to a script generator
MaxKeys == 4
\* length of the signature lists handed to get_script_sig
MaxSigs == 2
\* length of the language tags handed to convert_to_iso_639_1
MaxTagLen == 3

\* height of the longest header chain: one block past the fork
MaxHeight == ForkHeight + 1
\* verification tasks one transaction can have in flight at once: each call
\* from outside lets the scan dispatch one more
MaxTasksPerTx == MaxRemovals + 1

\* constants.net.max_checkpoint(): headers below it arrive in chunks, on request
MaxCheckpoint == 2

TxIds == {"t1", "t2"}
Chains == {"A", "B"}
Heights == 1..MaxHeight
\* three_keys.transaction.TxType names the verifier tells apart
TxTypes == {"NONVAULT", "ALERT_PENDING", "ALERT_RECOVERED"}
\* the types the wallet in the model gives each transaction
TypesOf(tx) == IF tx = "t1" THEN {"NONVAULT", "ALERT_PENDING"} ELSE {"NONVAULT", "ALERT_RECOVERED"}

VARIABLES
    \* SPV
    merkle_roots,       \* txid -> merkle root (once it has been verified)
    requested_merkle,   \* txid set of pending requests
    blockchain,         \* self.blockchain: the chain the verifier follows
    group,              \* self.group: "running", or "stopped" once a task of it has raised
    raised,             \* the exception the group ended with: [exc, cause, tx, id]
    redone,             \* the tx hashes _maybe_undo_verifications is redoing in this cycle
    main_pc,            \* SPV.main: "loop" (top of the loop, asleep) or "scan" (between the two calls)
    tasks,              \* the tasks spawned into the group and not finished
    chunk_tasks,        \* heights of the network.request_chunk calls spawned and not finished
    removals,           \* calls of remove_spv_proof_for_tx from outside the job, counted
    \* network
    cur_chain,          \* network.blockchain()
    tip,                \* chain -> height of its last header
    chunked,            \* heights below the checkpoint whose headers are on disk
    bhi_lock,           \* TRUE while header sync / reorg holds network.bhi_lock
    skipmerklecheck,    \* network.config.get("skipmerklecheck")
    \* wallet
    unverified_tx,      \* txid -> [height, txtype]
    verified_tx,        \* txid -> TxMinedInfo
    \* one call of hash_merkle_root
    m_pc, m_names, m_branch, m_tx, m_pos, tx_oracle, m_result,
    \* one script generator (three_keys/script.py)
    g_kind,             \* its class: "2K", "3K", "2KHW" or "3KHW"
    recovery_pubkey,    \* self.recovery_pubkey
    instant_pubkey,     \* self.instant_pubkey
    policy_flag,        \* self._recovery_alert_flag / self._instant_recovery_alert_flag: << >> is None
    witness_flags,      \* self.witness_flags
    last_set,           \* the set_* call made last: "none", "alert", "recovery" or "instant"
    g_pc,               \* "idle", or "done" when a get_* call has just returned or raised
    g_call,             \* that call: [op, keys, sigs, exc, value]
    \* one call of i18n.convert_to_iso_639_1
    i_pc,               \* "idle", or "done" when the call has just returned or raised
    i_locale,           \* its argument, a sequence of characters
    i_result,           \* [exc, value, msg]
    \* one call of verify_tx_is_in_block
    v_pc,               \* "idle", or "done" when the call has just returned or raised
    v_args,             \* [tx, header, height, answer]: its arguments and what the server answers
    v_result,           \* [err, pos]
    \* one email notification dialog (gui/qt/email_notification_dialogs.py)
    d_kind,             \* its class: "wizard" (EmailNotificationWizard) or "update" (UpdateEmailNotificationDialog)
    d_pc,               \* "start", "email" / "pin" (in exec_layout of that view), "returned", "end"
    d_method,           \* the view method running or returned: "choose_email", "change_email", "confirm_pin", "confirm_new_pin"
    d_result,           \* what_next: the State the view method returned, or "raised"
    d_email,            \* self._email
    d_new_email,        \* self._new_email
    d_error,            \* self._error_message: "" or the error it is the message of
    d_auto,             \* self._auto_resend_request
    d_switch,           \* resend_strategy._run_main_flow_api_request
    d_view,             \* the layout shown: [email, error, pending, auto]
    d_api,              \* the last request of the main flow: [call, outcome]
    notification_email, \* wallet.db 'notification_email'
    \* one call of a method of Connector (notification_connector.py)
    h_pc,               \* "idle", "done"
    h_fun,              \* the method and what its request ended with: a response or an exception of requests
    h_outcome           \* what the wrapper ended with: [kind, value] returned or [kind, exc] raised

vars_spv == <<merkle_roots, requested_merkle, blockchain, group, raised, redone, main_pc, tasks,
             chunk_tasks, removals>>
vars_net == <<cur_chain, tip, chunked, bhi_lock, skipmerklecheck>>
vars_wallet == <<unverified_tx, verified_tx>>
vars_merkle == <<m_pc, m_names, m_branch, m_tx, m_pos, tx_oracle, m_result>>
vars_script == <<g_kind, recovery_pubkey, instant_pubkey, policy_flag, witness_flags, last_set, g_pc,
                 g_call>>
vars_i18n == <<i_pc, i_locale, i_result>>
vars_verify == <<v_pc, v_args, v_result>>
\* the components no step of the verifier, the generator or the conversion touches
vars_dialog == <<d_kind, d_pc, d_method, d_result, d_email, d_new_email, d_error, d_auto, d_switch,
                d_view, d_api, notification_email>>
vars_handler == <<h_pc, h_fun, h_outcome>>
vars_rest == <<vars_verify, vars_dialog, vars_handler>>
vars == <<vars_spv, vars_net, vars_wallet, vars_merkle, vars_script, vars_i18n, vars_rest>>

\* 2^n
RECURSIVE Pow2(_)
Pow2(n) == IF n = 0 THEN 1 ELSE 2 * Pow2(n - 1)

(***************************************************************************)
(* Byte strings and hashes.  A 32-byte string is a digest term d together   *)
(* with its byte order (rev: reversed with respect to the digest's own      *)
(* order) and its encoding (enc: "hex" text or "raw" bytes).  sha256d is    *)
(* collision free: the digest of a concatenation is the pair of its halves. *)
(* An item of another length has len # 32.                                  *)
(***************************************************************************)
Bytes32(d, rev, enc) == [d |-> d, rev |-> rev, enc |-> enc, len |-> 32]

\* the raw digest of the transaction (or leaf) named n, in the digest's order
LeafDigest(n) == Bytes32(<<n>>, FALSE, "raw")

\* bfh: hex text to bytes;  bh2u: bytes to hex text
bfh(x) == [x EXCEPT !.enc = "raw"]
bh2u(x) == [x EXCEPT !.enc = "hex"]

\* x[::-1]
ReverseBytes(x) == [x EXCEPT !.rev = ~x.rev]

\* bitcoin.hash_decode: bfh(x)[::-1];  it raises on what is not hex text
CanHashDecode(x) == x.enc = "hex"
hash_decode(x) == ReverseBytes(bfh(x))

\* bitcoin.hash_encode: bh2u(x[::-1])
hash_encode(x) == bh2u(ReverseBytes(x))

\* crypto.sha256d of the concatenation a + b of two byte strings
sha256d(a, b) == Bytes32(<<a, b>>, FALSE, "raw")

\* the txid of the transaction named n as the wallet and the server write it
TxHash(n) == hash_encode(LeafDigest(n))

\* what a failed computation returns in place of a root
NoRoot == [d |-> <<>>, rev |-> FALSE, enc |-> "none", len |-> 0]

(***************************************************************************)
(* SPV.hash_merkle_root.  valid_tx is the set of raw byte strings that      *)
(* Transaction.deserialize accepts.  The result is [err, root]: err is      *)
(* "ok" and root the encoded root, or err names the exception raised.       *)
(***************************************************************************)
\* SPV._raise_if_valid_tx: TRUE when it raises InnerNodeOfSpvProofIsValidTx
RaiseIfValidTx(raw_tx, valid_tx) == bfh(raw_tx) \in valid_tx

HashStepSwapped(h, item, index) ==
    IF index % 2 = 1 THEN sha256d(h, item) ELSE sha256d(item, h)

\* line 160: h = sha256d(item + h) if (index & 1) else sha256d(h + item)
HashStep(h, item, index) ==
    IF index % 2 = 1 THEN sha256d(item, h) ELSE sha256d(h, item)

\* the loop without lines 163-164, the check that the index was used up
RECURSIVE MerkleLoopAnyIndex(_, _, _, _, _)
MerkleLoopAnyIndex(branch, n, h, index, valid_tx) ==
    IF n > Len(branch)
    THEN [err |-> "ok", root |-> hash_encode(h)]
    ELSE IF branch[n].len # 32
         THEN [err |-> "MerkleVerificationFailure", root |-> NoRoot]
         ELSE LET h2 == HashStep(h, branch[n], index)
              IN  IF RaiseIfValidTx(bh2u(h2), valid_tx)
                  THEN [err |-> "InnerNodeOfSpvProofIsValidTx", root |-> NoRoot]
                  ELSE MerkleLoopAnyIndex(branch, n + 1, h2, index \div 2, valid_tx)

\* the loop with line 162 at the top of the body: the last hash is not checked
RECURSIVE MerkleLoopLastUnchecked(_, _, _, _, _)
MerkleLoopLastUnchecked(branch, n, h, index, valid_tx) ==
    IF n > Len(branch)
    THEN IF index # 0
         THEN [err |-> "MerkleVerificationFailure", root |-> NoRoot]
         ELSE [err |-> "ok", root |-> hash_encode(h)]
    ELSE IF branch[n].len # 32
         THEN [err |-> "MerkleVerificationFailure", root |-> NoRoot]
         ELSE IF n > 1 /\ RaiseIfValidTx(bh2u(h), valid_tx)
              THEN [err |-> "InnerNodeOfSpvProofIsValidTx", root |-> NoRoot]
              ELSE MerkleLoopLastUnchecked(branch, n + 1, HashStep(h, branch[n], index),
                                           index \div 2, valid_tx)

RECURSIVE MerkleLoop(_, _, _, _, _)
MerkleLoop(branch, n, h, index, valid_tx) ==
    IF n > Len(branch)
    THEN IF index # 0
         THEN [err |-> "MerkleVerificationFailure", root |-> NoRoot]
         ELSE [err |-> "ok", root |-> hash_encode(h)]
    ELSE IF branch[n].len # 32
         THEN [err |-> "MerkleVerificationFailure", root |-> NoRoot]
         ELSE LET h2 == HashStep(h, branch[n], index)
              IN  IF RaiseIfValidTx(bh2u(h2), valid_tx)
                  THEN [err |-> "InnerNodeOfSpvProofIsValidTx", root |-> NoRoot]
                  ELSE MerkleLoop(branch, n + 1, h2, index \div 2, valid_tx)

HashMerkleRoot(merkle_branch, tx_hash, leaf_pos_in_tree, valid_tx) ==
    IF ~CanHashDecode(tx_hash) \/ \E n \in DOMAIN merkle_branch : ~CanHashDecode(merkle_branch[n])
    THEN [err |-> "MerkleVerificationFailure", root |-> NoRoot]
    ELSE IF leaf_pos_in_tree < 0
         THEN [err |-> "MerkleVerificationFailure", root |-> NoRoot]
         ELSE MerkleLoop([n \in DOMAIN merkle_branch |-> hash_decode(merkle_branch[n])],
                         1, hash_decode(tx_hash), leaf_pos_in_tree, valid_tx)

(***************************************************************************)
(* The Merkle tree of a block, built level by level from the digests of     *)
(* its transactions with the same pairwise hash, and the proof a server     *)
(* holds for one of its leaves.                                             *)
(***************************************************************************)
\* the level above: node j is the hash of nodes 2j-1 and 2j
LevelUp(level) == [j \in 1..(Len(level) \div 2) |-> sha256d(level[2 * j - 1], level[2 * j])]

RECURSIVE TreeRootOf(_)
TreeRootOf(level) == IF Len(level) = 1 THEN level[1] ELSE TreeRootOf(LevelUp(level))

\* the siblings of leaf i (counted from 0) from the leaves' level up to the root
RECURSIVE SiblingsOf(_, _)
SiblingsOf(level, i) ==
    IF Len(level) = 1 THEN << >>
    ELSE <<level[IF i % 2 = 0 THEN i + 2 ELSE i]>> \o SiblingsOf(LevelUp(level), i \div 2)

\* the nodes on the way from leaf i's parent up to the root
RECURSIVE AncestorsOf(_, _)
AncestorsOf(level, i) ==
    IF Len(level) = 1 THEN {}
    ELSE {LevelUp(level)[(i \div 2) + 1]} \cup AncestorsOf(LevelUp(level), i \div 2)

LeafLevel(names) == [j \in DOMAIN names |-> LeafDigest(names[j])]

\* the root as a block header publishes it, and the branch as a server sends it
PublishedRoot(names) == hash_encode(TreeRootOf(LeafLevel(names)))
ServerBranch(names, i) ==
    LET s == SiblingsOf(LeafLevel(names), i) IN [n \in DOMAIN s |-> hash_encode(s[n])]

(***************************************************************************)
(* The header chains.  Both chains hold the same blocks up to ForkHeight.   *)
(***************************************************************************)
\* the chain that owns the block at height h of chain c
Owner(c, h) == IF h <= ForkHeight THEN "A" ELSE c

TxName(t) == <<"tx", t, 0>>
CoinbaseName(c, h) == <<"cb", c, h>>

\* the transactions of the block at height h of chain c: t1 is mined in the
\* last common block, t2 in the next block of chain A; any other block holds
\* a foreign one
BlockTxs(c, h) ==
    <<CoinbaseName(Owner(c, h), h),
      IF h = ForkHeight THEN TxName("t1")
      ELSE IF h = ForkHeight + 1 /\ Owner(c, h) = "A" THEN TxName("t2")
      ELSE TxName("other")>>

Header(c, h) ==
    [block_height |-> h,
     prev_block_hash |-> <<Owner(c, h - 1), h - 1>>,
     merkle_root |-> PublishedRoot(BlockTxs(c, h)),
     timestamp |-> 600 * h]

\* blockchain.hash_header
hash_header(header) == <<"hash", header>>

\* Blockchain.height()
ChainHeight(c) == tip[c]

\* Blockchain.read_header: << >> is None, <<header>> a header
ReadHeader(c, h) ==
    IF h < 1 \/ h > tip[c] THEN << >>
    ELSE IF h < MaxCheckpoint /\ h \notin chunked THEN << >>
    ELSE <<Header(c, h)>>

\* Blockchain.get_height_of_last_common_block_with_chain
LastCommonHeight(c1, c2) == IF c1 = c2 THEN tip[c1] ELSE ForkHeight

(***************************************************************************)
(* The server.  It answers get_transaction and get_block with any block it  *)
(* likes: one of a chain, or one it made up around the transaction.         *)
(***************************************************************************)
ForgedBlock(t, h) == [height |-> h, tx |-> <<CoinbaseName("X", h), TxName(t)>>]
ChainBlocks == {[height |-> h, tx |-> BlockTxs(c, h)] : c \in Chains, h \in Heights}

\* the answers to the requests for transaction t, claimed at height h
ServerBlocks(t, h) == ChainBlocks \cup {ForgedBlock(t, h)}

\* list.index, counted from 0
IndexOf(seq, x) == (CHOOSE n \in DOMAIN seq : seq[n] = x) - 1
InSeq(seq, x) == \E n \in DOMAIN seq : seq[n] = x

(***************************************************************************)
(* The wallet (AddressSynchronizer).                                        *)
(***************************************************************************)
Put(f, k, v) == [x \in DOMAIN f \cup {k} |-> IF x = k THEN v ELSE f[x]]
Drop(f, ks) == [x \in DOMAIN f \ ks |-> f[x]]

TxMinedInfo(height, timestamp, txpos, header_hash, txtype) ==
    [height |-> height, timestamp |-> timestamp, txpos |-> txpos,
     header_hash |-> header_hash, txtype |-> txtype]

\* wallet.add_verified_tx
AddVerifiedTx(tx, info) ==
    /\ verified_tx' = Put(verified_tx, tx, info)
    /\ unverified_tx' = Drop(unverified_tx, {tx})

\* what wallet.undo_verifications(blockchain, above_height) returns
UndoSet(above_height) ==
    {tx \in DOMAIN verified_tx : verified_tx[tx].height > above_height}

\* wallet.undo_verifications
UndoVerifications(above_height) ==
    LET txs == UndoSet(above_height) IN
    /\ verified_tx' = Drop(verified_tx, txs)
    /\ unverified_tx' =
         [x \in DOMAIN unverified_tx \cup txs |->
            IF x \in txs
            THEN [height |-> verified_tx[x].height, txtype |-> verified_tx[x].txtype]
            ELSE unverified_tx[x]]

(***************************************************************************)
(* The SPV job.                                                             *)
(***************************************************************************)
EmptyMap == [x \in {} |-> x]

NoRaise == [exc |-> "none", cause |-> "none", tx |-> "none", id |-> <<"none", 0>>]
GroupRunning == group = "running"

\* a main loop that lets others run between the rollback and the scan
AtSuspensionAlways == TRUE

\* nothing else runs while main is between _maybe_undo_verifications and
\* _request_proofs: there is no suspension point there
AtSuspension == main_pc = "loop"

TasksOf(tx) == {t \in tasks : t.tx = tx}

\* the first slot of tx no task in flight holds
FreeSlot(tx) ==
    CHOOSE n \in 1..(MaxTasksPerTx + 1) :
        /\ \A t \in TasksOf(tx) : t.id # <<tx, n>>
        /\ \A m \in 1..(n - 1) : \E t \in TasksOf(tx) : t.id = <<tx, m>>

NewTask(kind, tx) ==
    [id |-> <<tx, FreeSlot(tx)>>, kind |-> kind, tx |-> tx,
     height |-> unverified_tx'[tx].height, txtype |-> unverified_tx'[tx].txtype,
     pc |-> "start", header |-> << >>]

\* _reset without line 60, requested_merkle = set()
ResetKeepsRequested ==
    /\ merkle_roots' = EmptyMap
    /\ UNCHANGED requested_merkle

\* SPV._reset
Reset ==
    /\ merkle_roots' = EmptyMap
    /\ requested_merkle' = {}

\* a group that lets the other tasks and main run on when a task raises
GroupRaiseLocal(exc, cause, t) ==
    /\ raised' = [exc |-> exc, cause |-> cause, tx |-> t.tx, id |-> t.id]
    /\ tasks' = {u \in tasks : u.id # t.id}
    /\ UNCHANGED <<group, chunk_tasks, main_pc>>

\* a task of the group raised: TaskGroup.join cancels the remaining tasks
\* (main among them) and raises out of _start_tasks
GroupRaise(exc, cause, t) ==
    /\ group' = "stopped"
    /\ raised' = [exc |-> exc, cause |-> cause, tx |-> t.tx, id |-> t.id]
    /\ tasks' = {}
    /\ chunk_tasks' = {}
    /\ main_pc' = "loop"

\* remove_spv_proof_for_tx without line 194, merkle_roots.pop
RootsKept(txs) == merkle_roots

\* SPV.remove_spv_proof_for_tx, for each of txs
RootsWithout(txs) == Drop(merkle_roots, txs)
RequestedWithout(txs) == requested_merkle \ txs

\* SPV._maybe_undo_verifications
MaybeUndoVerifications ==
    /\ GroupRunning
    /\ AtSuspension
    \* the tasks spawned by the last scan start before main's sleep ends
    /\ \A t \in tasks : t.pc # "start"
    /\ main_pc' = "scan"
    /\ IF cur_chain # blockchain
       THEN LET above_height == LastCommonHeight(cur_chain, blockchain)
                tx_hashes == UndoSet(above_height)
            IN  /\ blockchain' = cur_chain
                /\ UndoVerifications(above_height)
                /\ redone' = tx_hashes
                /\ merkle_roots' = RootsWithout(tx_hashes)
                /\ requested_merkle' = RequestedWithout(tx_hashes)
       ELSE UNCHANGED <<blockchain, vars_wallet, redone, merkle_roots, requested_merkle>>
    /\ UNCHANGED <<group, raised, tasks, chunk_tasks, removals, vars_net, vars_merkle, vars_script, vars_i18n, vars_rest>>

\* the scan without lines 87-89, the skip of what is requested or cached
EligibleWhateverTheState(tx) ==
    /\ tx \in DOMAIN unverified_tx
    /\ ~(unverified_tx[tx].height <= 0 \/ unverified_tx[tx].height > ChainHeight(blockchain))

\* the scan with line 91 testing tx_height <= 0 only
EligibleWhateverTheLocalHeight(tx) ==
    /\ tx \in DOMAIN unverified_tx
    /\ ~(tx \in requested_merkle \/ tx \in DOMAIN merkle_roots)
    /\ ~(unverified_tx[tx].height <= 0)

\* lines 87-92: what the scan does not skip
Eligible(tx) ==
    /\ tx \in DOMAIN unverified_tx
    /\ ~(tx \in requested_merkle \/ tx \in DOMAIN merkle_roots)
    /\ ~(unverified_tx[tx].height <= 0 \/ unverified_tx[tx].height > ChainHeight(blockchain))

\* line 94
Exempt(tx_type) == tx_type = "ALERT_PENDING" \/ tx_type = "ALERT_RECOVERED"

\* the scan without lines 99-102: a proof is requested with or without the header
RequestProofsWithoutHeader ==
    /\ GroupRunning
    /\ main_pc = "scan"
    /\ LET marked == {tx \in TxIds : Eligible(tx) /\ Exempt(unverified_tx[tx].txtype)}
           plain == {tx \in TxIds : Eligible(tx) /\ ~Exempt(unverified_tx[tx].txtype)}
           headerless == {tx \in plain : ReadHeader(blockchain, unverified_tx[tx].height) = << >>}
           requested == plain
       IN  /\ \A tx \in marked \cup requested : FreeSlot(tx) <= MaxTasksPerTx
           /\ UNCHANGED vars_wallet
           /\ tasks' = tasks \cup {NewTask("mark", tx) : tx \in marked}
                             \cup {NewTask("proof", tx) : tx \in requested}
           /\ requested_merkle' = requested_merkle \cup requested
           /\ chunk_tasks' = chunk_tasks \cup
                {unverified_tx[tx].height : tx \in {x \in headerless : unverified_tx[x].height < MaxCheckpoint}}
    /\ main_pc' = "loop"
    /\ redone' = {}
    /\ UNCHANGED <<merkle_roots, blockchain, group, raised, removals, vars_net, vars_merkle, vars_script, vars_i18n, vars_rest>>

\* SPV._request_proofs
RequestProofs ==
    /\ GroupRunning
    /\ main_pc = "scan"
    /\ LET marked == {tx \in TxIds : Eligible(tx) /\ Exempt(unverified_tx[tx].txtype)}
           plain == {tx \in TxIds : Eligible(tx) /\ ~Exempt(unverified_tx[tx].txtype)}
           headerless == {tx \in plain : ReadHeader(blockchain, unverified_tx[tx].height) = << >>}
           requested == plain \ headerless
       IN  /\ \A tx \in marked \cup requested : FreeSlot(tx) <= MaxTasksPerTx
           /\ UNCHANGED vars_wallet
           /\ tasks' = tasks \cup {NewTask("mark", tx) : tx \in marked}
                             \cup {NewTask("proof", tx) : tx \in requested}
           /\ requested_merkle' = requested_merkle \cup requested
           /\ chunk_tasks' = chunk_tasks \cup
                {unverified_tx[tx].height : tx \in {x \in headerless : unverified_tx[x].height < MaxCheckpoint}}
    /\ main_pc' = "loop"
    /\ redone' = {}
    /\ UNCHANGED <<merkle_roots, blockchain, group, raised, removals, vars_net, vars_merkle, vars_script, vars_i18n, vars_rest>>

\* SPV._mark_as_verified
MarkAsVerified(t) ==
    /\ GroupRunning
    /\ AtSuspension
    /\ t.kind = "mark"
    /\ t.pc = "start"
    /\ requested_merkle' = requested_merkle \ {t.tx}
    /\ LET header == ReadHeader(cur_chain, t.height) IN
       IF header = << >>
       THEN \* header.get('timestamp') on None
            /\ GroupRaise("AttributeError", "none", t)
            /\ UNCHANGED vars_wallet
       ELSE /\ AddVerifiedTx(t.tx, TxMinedInfo(t.height, header[1].timestamp, 0,
                                               hash_header(header[1]), t.txtype))
            /\ tasks' = tasks \ {t}
            /\ UNCHANGED <<group, raised, main_pc, chunk_tasks>>
    /\ UNCHANGED <<merkle_roots, blockchain, redone, removals, vars_net, vars_merkle, vars_script, vars_i18n, vars_rest>>

\* ProofVerified without line 135, requested_merkle.discard
ProofVerifiedKeepsRequest(t, tx_pos) ==
    /\ merkle_roots' = Put(merkle_roots, t.tx, t.header[1].merkle_root)
    /\ UNCHANGED requested_merkle
    /\ AddVerifiedTx(t.tx, TxMinedInfo(t.height, t.header[1].timestamp, tx_pos,
                                       hash_header(t.header[1]), t.txtype))
    /\ tasks' = tasks \ {t}
    /\ UNCHANGED <<group, raised, main_pc, chunk_tasks>>

\* ProofVerified with txpos=0 at line 140, as at line 115
ProofVerifiedPositionZero(t, tx_pos) ==
    /\ merkle_roots' = Put(merkle_roots, t.tx, t.header[1].merkle_root)
    /\ requested_merkle' = requested_merkle \ {t.tx}
    /\ AddVerifiedTx(t.tx, TxMinedInfo(t.height, t.header[1].timestamp, 0,
                                       hash_header(t.header[1]), t.txtype))
    /\ tasks' = tasks \ {t}
    /\ UNCHANGED <<group, raised, main_pc, chunk_tasks>>

\* lines 133-143: we passed all the tests
ProofVerified(t, tx_pos) ==
    /\ merkle_roots' = Put(merkle_roots, t.tx, t.header[1].merkle_root)
    /\ requested_merkle' = requested_merkle \ {t.tx}
    /\ AddVerifiedTx(t.tx, TxMinedInfo(t.height, t.header[1].timestamp, tx_pos,
                                       hash_header(t.header[1]), t.txtype))
    /\ tasks' = tasks \ {t}
    /\ UNCHANGED <<group, raised, main_pc, chunk_tasks>>

\* lines 127-143: verify_tx_is_in_block raised the MerkleVerificationFailure cause
VerificationFailed(t, cause) ==
    IF skipmerklecheck
    THEN IF t.header = << >>
         THEN \* line 134: header.get('merkle_root') on None
              /\ GroupRaise("AttributeError", cause, t)
              /\ UNCHANGED <<merkle_roots, requested_merkle, vars_wallet>>
         ELSE ProofVerified(t, -1)
    ELSE /\ GroupRaise("GracefulDisconnect", cause, t)
         /\ UNCHANGED <<merkle_roots, requested_merkle, vars_wallet>>

\* line 123, with header sync or a reorg holding bhi_lock
ProofWaitLock(t) ==
    /\ GroupRunning
    /\ AtSuspension
    /\ t.kind = "proof"
    /\ t.pc = "start"
    /\ bhi_lock
    /\ tasks' = (tasks \ {t}) \cup {[t EXCEPT !.pc = "lock"]}
    /\ UNCHANGED <<merkle_roots, requested_merkle, blockchain, group, raised, redone, main_pc,
                   chunk_tasks, removals, vars_net, vars_wallet, vars_merkle, vars_script, vars_i18n, vars_rest>>

\* the snapshot without line 123: the header is read whoever holds bhi_lock
ProofSnapshotWithoutLock(t) ==
    /\ GroupRunning
    /\ AtSuspension
    /\ t.kind = "proof"
    /\ t.pc \in {"start", "lock"}
    /\ LET snap == [t EXCEPT !.header = ReadHeader(cur_chain, t.height)] IN
       IF snap.header = << >>
       THEN VerificationFailed(snap, "MissingBlockHeader")
       ELSE /\ tasks' = (tasks \ {t}) \cup {[snap EXCEPT !.pc = "fetch"]}
            /\ UNCHANGED <<merkle_roots, requested_merkle, group, raised, main_pc, chunk_tasks, vars_wallet>>
    /\ UNCHANGED <<blockchain, redone, removals, vars_net, vars_merkle, vars_script, vars_i18n, vars_rest>>

\* the snapshot with the header looked at only after the requests are sent
ProofSnapshotChecksLater(t) ==
    /\ GroupRunning
    /\ AtSuspension
    /\ t.kind = "proof"
    /\ t.pc \in {"start", "lock"}
    /\ ~bhi_lock
    /\ tasks' = (tasks \ {t}) \cup {[t EXCEPT !.header = ReadHeader(cur_chain, t.height), !.pc = "fetch"]}
    /\ UNCHANGED <<merkle_roots, requested_merkle, group, raised, main_pc, chunk_tasks, vars_wallet>>
    /\ UNCHANGED <<blockchain, redone, removals, vars_net, vars_merkle, vars_script, vars_i18n, vars_rest>>

\* lines 123-126 and 204-208: the header snapshot under bhi_lock, then
\* verify_tx_is_in_block up to its first await
ProofSnapshot(t) ==
    /\ GroupRunning
    /\ AtSuspension
    /\ t.kind = "proof"
    /\ t.pc \in {"start", "lock"}
    /\ ~bhi_lock
    /\ LET snap == [t EXCEPT !.header = ReadHeader(cur_chain, t.height)] IN
       IF snap.header = << >>
       THEN VerificationFailed(snap, "MissingBlockHeader")
       ELSE /\ tasks' = (tasks \ {t}) \cup {[snap EXCEPT !.pc = "fetch"]}
            /\ UNCHANGED <<merkle_roots, requested_merkle, group, raised, main_pc, chunk_tasks, vars_wallet>>
    /\ UNCHANGED <<blockchain, redone, removals, vars_net, vars_merkle, vars_script, vars_i18n, vars_rest>>

\* lines 214-216 without the test of block["height"]
VerifyTxIsInBlockAnyHeight(tx, block, block_height) ==
    IF ~InSeq(block.tx, TxName(tx))
    THEN [err |-> "MerkleVerificationFailure", pos |-> -1]
    ELSE [err |-> "ok", pos |-> IndexOf(block.tx, TxName(tx))]

\* verify_tx_is_in_block, lines 214-216, on the server's answer
VerifyTxIsInBlock(tx, block, block_height) ==
    IF block.height # block_height \/ ~InSeq(block.tx, TxName(tx))
    THEN [err |-> "MerkleVerificationFailure", pos |-> -1]
    ELSE [err |-> "ok", pos |-> IndexOf(block.tx, TxName(tx))]

\* lines 208-216 and 127-143: the server answers get_transaction and
\* get_block with block, and the task runs to its end
ProofFetched(t, block) ==
    /\ GroupRunning
    /\ AtSuspension
    /\ t.kind = "proof"
    /\ t.pc = "fetch"
    /\ LET res == VerifyTxIsInBlock(t.tx, block, t.height) IN
       IF res.err # "ok"
       THEN VerificationFailed(t, res.err)
       ELSE ProofVerified(t, res.pos)
    /\ UNCHANGED <<blockchain, redone, removals, vars_net, vars_merkle, vars_script, vars_i18n, vars_rest>>

\* lines 211-213: get_transaction or get_block raised
ProofFetchFailed(t) ==
    /\ GroupRunning
    /\ AtSuspension
    /\ t.kind = "proof"
    /\ t.pc = "fetch"
    /\ GroupRaise("NetworkError", "none", t)
    /\ UNCHANGED <<merkle_roots, requested_merkle, blockchain, redone, removals, vars_net, vars_wallet,
                   vars_merkle, vars_script, vars_i18n, vars_rest>>

\* SPV.remove_spv_proof_for_tx, called from outside the job
RemoveSpvProofForTx(tx) ==
    /\ GroupRunning
    /\ AtSuspension
    /\ tx \in requested_merkle \/ tx \in DOMAIN merkle_roots
    /\ removals < MaxRemovals
    /\ removals' = removals + 1
    /\ merkle_roots' = RootsWithout({tx})
    /\ requested_merkle' = RequestedWithout({tx})
    /\ UNCHANGED <<blockchain, group, raised, redone, main_pc, tasks, chunk_tasks, vars_net, vars_wallet,
                   vars_merkle, vars_script, vars_i18n, vars_rest>>

\* NetworkJobOnDefaultServer._restart: _stop, _reset, _start
Restart ==
    /\ AtSuspension
    /\ ~GroupRunning
    /\ Reset
    /\ group' = "running"
    /\ raised' = NoRaise
    /\ redone' = {}
    /\ tasks' = {}
    /\ chunk_tasks' = {}
    /\ main_pc' = "loop"
    /\ blockchain' = cur_chain
    /\ UNCHANGED <<removals, vars_net, vars_wallet, vars_merkle, vars_script, vars_i18n, vars_rest>>

(***************************************************************************)
(* The network.                                                             *)
(***************************************************************************)
\* a spawned network.request_chunk brings the headers of its chunk
ChunkArrives(h) ==
    /\ GroupRunning
    /\ AtSuspension
    /\ h \in chunk_tasks
    /\ chunk_tasks' = chunk_tasks \ {h}
    /\ chunked' = chunked \cup {h}
    /\ UNCHANGED <<merkle_roots, requested_merkle, blockchain, group, raised, redone, main_pc, tasks,
                   removals, cur_chain, tip, bhi_lock, skipmerklecheck, vars_wallet, vars_merkle, vars_script, vars_i18n, vars_rest>>

\* header sync or a reorg takes bhi_lock
NetLock ==
    /\ AtSuspension
    /\ ~bhi_lock
    /\ bhi_lock' = TRUE
    /\ UNCHANGED <<vars_spv, cur_chain, tip, chunked, skipmerklecheck, vars_wallet, vars_merkle, vars_script, vars_i18n, vars_rest>>

NetUnlock ==
    /\ AtSuspension
    /\ bhi_lock
    /\ bhi_lock' = FALSE
    /\ UNCHANGED <<vars_spv, cur_chain, tip, chunked, skipmerklecheck, vars_wallet, vars_merkle, vars_script, vars_i18n, vars_rest>>

\* a new header extends chain c
HeaderSync(c) ==
    /\ AtSuspension
    /\ bhi_lock
    /\ tip[c] < MaxHeight
    /\ tip' = [tip EXCEPT ![c] = tip[c] + 1]
    /\ UNCHANGED <<vars_spv, cur_chain, chunked, bhi_lock, skipmerklecheck, vars_wallet, vars_merkle, vars_script, vars_i18n, vars_rest>>

\* the network follows the other chain
Reorg ==
    /\ AtSuspension
    /\ bhi_lock
    /\ cur_chain' \in Chains \ {cur_chain}
    /\ UNCHANGED <<vars_spv, tip, chunked, bhi_lock, skipmerklecheck, vars_wallet, vars_merkle, vars_script, vars_i18n, vars_rest>>

(***************************************************************************)
(* One call of hash_merkle_root on a branch a server sends: the branch of a *)
(* leaf of a tree, as it is or damaged on the way.                          *)
(***************************************************************************)
LeafName(j) == <<"tx", "leaf", j>>

\* the trees of depth k: all leaves different, or all the same leaf
TreesOf(k) == {[j \in 1..Pow2(k) |-> LeafName(j)], [j \in 1..Pow2(k) |-> LeafName(1)]}

ShortItem == [d |-> <<>>, rev |-> FALSE, enc |-> "hex", len |-> 31]

\* a branch with item n damaged
Damaged(branch, n, how) ==
    IF how = "short" THEN [branch EXCEPT ![n] = ShortItem]
    ELSE IF how = "other" THEN [branch EXCEPT ![n] = TxHash(LeafName(0))]
    ELSE IF how = "nothex" THEN [branch EXCEPT ![n] = bfh(branch[n])]
    ELSE SubSeq(branch, 1, Len(branch) - 1)

NoCall ==
    [op |-> "none", keys |-> [islist |-> TRUE, items |-> << >>], sigs |-> << >>,
     exc |-> "none", value |-> << >>]

\* no generator is built
ScriptIdle ==
    /\ g_kind = "none"
    /\ recovery_pubkey = << >>
    /\ instant_pubkey = << >>
    /\ policy_flag = << >>
    /\ witness_flags = << >>
    /\ last_set = "none"
    /\ g_pc = "idle"
    /\ g_call = NoCall

\* convert_to_iso_639_1 is not called
NoResult == [exc |-> "none", value |-> << >>, msg |-> << >>]
I18nIdle ==
    /\ i_pc = "idle"
    /\ i_locale = << >>
    /\ i_result = NoResult

\* verify_tx_is_in_block is not called
NoVerifyArgs == [tx |-> "none", header |-> << >>, height |-> 0, answer |-> [kind |-> "none"]]
NoVerifyResult == [err |-> "none", pos |-> -1]
VerifyIdle ==
    /\ v_pc = "idle"
    /\ v_args = NoVerifyArgs
    /\ v_result = NoVerifyResult

\* no dialog is open
NoView == [email |-> "", error |-> "", pending |-> FALSE, auto |-> 0]
NoApi == [call |-> "none", outcome |-> "none"]
DialogIdle ==
    /\ d_kind = "none"
    /\ d_pc = "start"
    /\ d_method = "none"
    /\ d_result = "none"
    /\ d_email = ""
    /\ d_new_email = ""
    /\ d_error = ""
    /\ d_auto = FALSE
    /\ d_switch = FALSE
    /\ d_view = NoView
    /\ d_api = NoApi
    /\ notification_email = ""

\* no method of the connector is called
NoFun == [method |-> "none", fun |-> [kind |-> "none"]]
NoOutcome == [kind |-> "none"]
HandlerIdle ==
    /\ h_pc = "idle"
    /\ h_fun = NoFun
    /\ h_outcome = NoOutcome

RestIdle == VerifyIdle /\ DialogIdle /\ HandlerIdle

VerifierIdle ==
    /\ merkle_roots = EmptyMap
    /\ requested_merkle = {}
    /\ cur_chain = "A"
    /\ blockchain = "A"
    /\ group = "running"
    /\ raised = NoRaise
    /\ redone = {}
    /\ main_pc = "loop"
    /\ tasks = {}
    /\ chunk_tasks = {}
    /\ removals = 0
    /\ tip = [c \in Chains |-> MaxHeight]
    /\ chunked = {}
    /\ bhi_lock = FALSE
    /\ skipmerklecheck = FALSE
    /\ unverified_tx = EmptyMap
    /\ verified_tx = EmptyMap

MerkleInit ==
    /\ VerifierIdle
    /\ ScriptIdle
    /\ I18nIdle
    /\ RestIdle
    /\ m_pc = "call"
    /\ \E k \in 0..MaxDepth :
        /\ m_names \in TreesOf(k)
        /\ m_tx \in {TxHash(m_names[j]) : j \in DOMAIN m_names} \cup {LeafDigest(m_names[1])}
        /\ m_pos \in -1..Pow2(k)
        /\ \E b \in {ServerBranch(m_names, i) : i \in 0..(Pow2(k) - 1)} :
             m_branch \in {b} \cup {Damaged(b, n, how) : n \in DOMAIN b,
                                     how \in {"short", "other", "nothex", "drop"}}
        /\ tx_oracle \in {{}} \cup {{a} : a \in UNION {AncestorsOf(LeafLevel(m_names), i) : i \in 0..(Pow2(k) - 1)}}
    /\ m_result = [err |-> "none", root |-> NoRoot]

\* the call returns or raises
MerkleCall ==
    /\ m_pc = "call"
    /\ m_pc' = "done"
    /\ m_result' = HashMerkleRoot(m_branch, m_tx, m_pos, tx_oracle)
    /\ UNCHANGED <<m_names, m_branch, m_tx, m_pos, tx_oracle, vars_spv, vars_net, vars_wallet,
                   vars_script, vars_i18n, vars_rest>>

MerkleNext == MerkleCall

SpecMerkle == MerkleInit /\ [][MerkleNext]_vars

(***************************************************************************)
(* The script generators of three_keys/script.py.  A hex string is the      *)
(* sequence of the pieces of the byte string it writes: an opcode, a byte   *)
(* or a two-byte word of a given value, or a named run of data bytes.       *)
(* Concatenating hex strings is concatenating the sequences.                *)
(***************************************************************************)
\* opcodes.OP_x.hex()
Op(name) == <<[kind |-> "op", name |-> name, n |-> 1]>>
\* bitcoin.int_to_hex(v, 1) and int_to_hex(v, 2)
Byte(v) == <<[kind |-> "byte", name |-> "", n |-> v]>>
Word(v) == <<[kind |-> "word", name |-> "", n |-> v]>>
\* the hex of len bytes of data
Data(name, len) == IF len = 0 THEN << >> ELSE <<[kind |-> "data", name |-> name, n |-> len]>>

\* len(bfh(x))
RECURSIVE ByteLen(_)
ByteLen(x) ==
    IF x = << >> THEN 0
    ELSE (IF x[1].kind = "data" THEN x[1].n ELSE IF x[1].kind = "word" THEN 2 ELSE 1)
         + ByteLen(Tail(x))

\* bytes of a compressed public key, and of a DER signature with its hash type
KeyBytes == 33
SigBytes == 72

\* opcodes.OP_1 .. OP_16 by value
SmallIntOp(v) ==
    Op(<<"OP_1", "OP_2", "OP_3", "OP_4", "OP_5", "OP_6", "OP_7", "OP_8", "OP_9", "OP_10",
         "OP_11", "OP_12", "OP_13", "OP_14", "OP_15", "OP_16">>[v])

\* bitcoin._op_push
op_push(i) ==
    IF i < 76 THEN Byte(i)
    ELSE IF i <= 255 THEN Op("OP_PUSHDATA1") \o Byte(i)
    ELSE IF i <= 65535 THEN Op("OP_PUSHDATA2") \o Word(i)
    ELSE Op("OP_PUSHDATA4") \o Word(i \div 65536) \o Word(i % 65536)

\* bitcoin.push_script: the minimal push of data
push_script(data) ==
    LET data_len == ByteLen(data) IN
    IF data_len = 0 \/ (data_len = 1 /\ data[1].kind = "byte" /\ data[1].n = 0)
    THEN Op("OP_0")
    ELSE IF data_len = 1 /\ data[1].kind = "byte" /\ data[1].n <= 16
    THEN SmallIntOp(data[1].n)
    ELSE IF data_len = 1 /\ data[1].kind = "byte" /\ data[1].n = 129
    THEN Op("OP_1NEGATE")
    ELSE op_push(data_len) \o data

\* TwoKeysScriptGenerator.create_redeem_script
create_redeem_script2(alert_pubkey, recovery) ==
    Op("OP_IF") \o Op("OP_1") \o Op("OP_ELSE") \o Op("OP_2") \o Op("OP_ENDIF")
    \o push_script(alert_pubkey) \o push_script(recovery)
    \o Op("OP_2") \o Op("OP_CHECKMULTISIG")

\* create_redeem_script with the pushes of lines 94 and 95 in the other order
create_redeem_script3RecoveryFirst(alert_pubkey, instant, recovery) ==
    Op("OP_IF") \o Op("OP_1") \o Op("OP_ELSE")
    \o Op("OP_IF") \o Op("OP_2") \o Op("OP_ELSE") \o Op("OP_3") \o Op("OP_ENDIF") \o Op("OP_ENDIF")
    \o push_script(alert_pubkey) \o push_script(recovery) \o push_script(instant)
    \o Op("OP_3") \o Op("OP_CHECKMULTISIG")

\* ThreeKeysScriptGenerator.create_redeem_script
create_redeem_script3(alert_pubkey, instant, recovery) ==
    Op("OP_IF") \o Op("OP_1") \o Op("OP_ELSE")
    \o Op("OP_IF") \o Op("OP_2") \o Op("OP_ELSE") \o Op("OP_3") \o Op("OP_ENDIF") \o Op("OP_ENDIF")
    \o push_script(alert_pubkey) \o push_script(instant) \o push_script(recovery)
    \o Op("OP_3") \o Op("OP_CHECKMULTISIG")

\* _create_script_sig with the flag of lines 35 and 104 written before the
\* signatures
create_script_sigFlagFirst(signatures, flag, redeem_script) ==
    Op("OP_0") \o flag \o signatures \o push_script(redeem_script)

\* _create_script_sig, the same in both classes
create_script_sig(signatures, flag, redeem_script) ==
    Op("OP_0") \o signatures \o flag \o push_script(redeem_script)

\* what a call gives: exc is "ok" and value the script, or exc names the exception
Returns(value) == [exc |-> "ok", value |-> value]
Raises(exc) == [exc |-> exc, value |-> << >>]

\* a filter that takes the recovery key off the end of the list only
FilterOutLast(items, recovery) ==
    IF items # << >> /\ items[Len(items)] = recovery
    THEN SubSeq(items, 1, Len(items) - 1)
    ELSE items

\* list(filter(lambda item: item != recovery, public_keys))
RECURSIVE FilterOut(_, _)
FilterOut(items, recovery) ==
    IF items = << >> THEN << >>
    ELSE (IF items[1] # recovery THEN <<items[1]>> ELSE << >>) \o FilterOut(Tail(items), recovery)

\* get_redeem_script without the test of lines 45-46: the first key left is
\* taken for the alert key
RedeemScript2KFirstLeft(recovery, public_keys) ==
    IF ~public_keys.islist \/ Len(public_keys.items) \notin {1, 2}
    THEN Raises("ThreeKeysError")
    ELSE LET filtered_keys == FilterOut(public_keys.items, recovery) IN
         IF filtered_keys = << >>
         THEN Raises("IndexError")
         ELSE Returns(create_redeem_script2(filtered_keys[1], recovery))

\* TwoKeysScriptGenerator.get_redeem_script, self.recovery_pubkey being recovery
RedeemScript2K(recovery, public_keys) ==
    IF ~public_keys.islist \/ Len(public_keys.items) \notin {1, 2}
    THEN Raises("ThreeKeysError")
    ELSE LET filtered_keys == FilterOut(public_keys.items, recovery) IN
         IF Len(filtered_keys) # 1
         THEN Raises("ThreeKeysError")
         ELSE Returns(create_redeem_script2(filtered_keys[1], recovery))

get_redeem_script_2K(public_keys) == RedeemScript2K(recovery_pubkey, public_keys)

\* get_redeem_script that takes the instant and the recovery key from the list
\* when the list has them, as line 167 does
RedeemScript3KListedKeys(instant, recovery, public_keys) ==
    IF ~public_keys.islist \/ Len(public_keys.items) > 3
    THEN Raises("ThreeKeysError")
    ELSE IF public_keys.items = << >>
    THEN Raises("IndexError")
    ELSE IF Len(public_keys.items) = 3
    THEN Returns(create_redeem_script3(public_keys.items[1], public_keys.items[2],
                                       public_keys.items[3]))
    ELSE Returns(create_redeem_script3(public_keys.items[1], instant, recovery))

\* ThreeKeysScriptGenerator.get_redeem_script, self's keys being instant and recovery
RedeemScript3K(instant, recovery, public_keys) ==
    IF ~public_keys.islist \/ Len(public_keys.items) > 3
    THEN Raises("ThreeKeysError")
    ELSE IF public_keys.items = << >>
    THEN \* public_keys[0] of an empty list
         Raises("IndexError")
    ELSE Returns(create_redeem_script3(public_keys.items[1], instant, recovery))

get_redeem_script_3K(public_keys) == RedeemScript3K(instant_pubkey, recovery_pubkey, public_keys)

\* get_redeem_script with the two arguments of line 156 in the other order
get_redeem_script_2KHWRecoveryFirst(public_keys) ==
    IF ~public_keys.islist \/ Len(public_keys.items) # 2
    THEN Raises("ThreeKeysError")
    ELSE Returns(create_redeem_script2(public_keys.items[2], public_keys.items[1]))

\* TwoKeysHWScriptGenerator.get_redeem_script
get_redeem_script_2KHW(public_keys) ==
    IF ~public_keys.islist \/ Len(public_keys.items) # 2
    THEN Raises("ThreeKeysError")
    ELSE Returns(create_redeem_script2(public_keys.items[1], public_keys.items[2]))

\* ThreeKeysHWScriptGenerator.get_redeem_script
get_redeem_script_3KHW(public_keys) ==
    IF ~public_keys.islist \/ Len(public_keys.items) # 3
    THEN Raises("ThreeKeysError")
    ELSE Returns(create_redeem_script3(public_keys.items[1], public_keys.items[2],
                                       public_keys.items[3]))

\* self.get_redeem_script, by the class of self
get_redeem_script(public_keys) ==
    IF g_kind = "2K" THEN get_redeem_script_2K(public_keys)
    ELSE IF g_kind = "3K" THEN get_redeem_script_3K(public_keys)
    ELSE IF g_kind = "2KHW" THEN get_redeem_script_2KHW(public_keys)
    ELSE get_redeem_script_3KHW(public_keys)

\* ''.join(push_script(sig) for sig in signatures)
RECURSIVE JoinPushes(_)
JoinPushes(signatures) ==
    IF signatures = << >> THEN << >>
    ELSE push_script(signatures[1]) \o JoinPushes(Tail(signatures))

\* get_script_sig without lines 52-53 and 117-118: an unset flag is written as
\* no flag at all
ScriptSigUnsetFlagEmpty(signatures, redeem) ==
    LET sigs == JoinPushes(signatures)
        flag == IF policy_flag = << >> THEN << >> ELSE policy_flag[1]
    IN  IF redeem.exc # "ok" THEN redeem
        ELSE Returns(create_script_sig(sigs, flag, redeem.value))

\* get_script_sig, the same in both classes; redeem is what
\* self.get_redeem_script(public_keys) gives
ScriptSig(signatures, redeem) ==
    IF policy_flag = << >>
    THEN Raises("ThreeKeysError")
    ELSE LET sigs == JoinPushes(signatures)
         IN  IF redeem.exc # "ok" THEN redeem
             ELSE Returns(create_script_sig(sigs, policy_flag[1], redeem.value))

get_script_sig(signatures, public_keys) == ScriptSig(signatures, get_redeem_script(public_keys))

\* hash_merkle_root is not called
MerkleIdle ==
    /\ m_pc = "idle"
    /\ m_names = << >>
    /\ m_branch = << >>
    /\ m_tx = NoRoot
    /\ m_pos = 0
    /\ tx_oracle = {}
    /\ m_result = [err |-> "none", root |-> NoRoot]

(***************************************************************************)
(* One script generator and the calls made on it.                           *)
(***************************************************************************)
Kinds == {"2K", "3K", "2KHW", "3KHW"}
ThreeKeyKinds == {"3K", "3KHW"}

Key(name) == Data(name, KeyBytes)
Keys == {Key("a"), Key("i"), Key("r")}
Sigs == {Data("s0", 0), Data("s1", SigBytes)}

\* the public_keys arguments: a list of up to MaxKeys keys, or a tuple that
\* holds what a list a generator accepts holds
KeyLists == UNION {[1..n -> Keys] : n \in 0..MaxKeys}
KeyTuples == {<<Key("a")>>, <<Key("a"), Key("r")>>, <<Key("a"), Key("i"), Key("r")>>}
KeyInputs ==
    {[islist |-> TRUE, items |-> items] : items \in KeyLists}
        \cup {[islist |-> FALSE, items |-> items] : items \in KeyTuples}
SigLists == UNION {[1..n -> Sigs] : n \in 0..MaxSigs}

\* the four __init__: an attribute a class does not set is << >>
ScriptInit ==
    /\ VerifierIdle
    /\ MerkleIdle
    /\ I18nIdle
    /\ RestIdle
    /\ g_kind \in Kinds
    /\ recovery_pubkey = IF g_kind = "3KHW" THEN << >> ELSE Key("r")
    /\ instant_pubkey = IF g_kind = "3K" THEN Key("i") ELSE << >>
    /\ policy_flag = << >>
    /\ witness_flags = << >>
    /\ last_set = "none"
    /\ g_pc = "idle"
    /\ g_call = NoCall

ScriptUnchanged == UNCHANGED <<vars_spv, vars_net, vars_wallet, vars_merkle, vars_i18n, vars_rest>>

\* set_alert, the same in both classes
SetAlert ==
    /\ g_pc = "idle"
    /\ policy_flag' = <<Op("OP_1")>>
    /\ witness_flags' = <<1>>
    /\ last_set' = "alert"
    /\ UNCHANGED <<g_kind, recovery_pubkey, instant_pubkey, g_pc, g_call>>
    /\ ScriptUnchanged

\* set_recovery with the witness_flags of line 65 in the three-key classes too
SetRecoveryOneWitnessFlag ==
    /\ g_pc = "idle"
    /\ policy_flag' = <<IF g_kind \in ThreeKeyKinds THEN Op("OP_0") \o Op("OP_0") ELSE Op("OP_0")>>
    /\ witness_flags' = <<0>>
    /\ last_set' = "recovery"
    /\ UNCHANGED <<g_kind, recovery_pubkey, instant_pubkey, g_pc, g_call>>
    /\ ScriptUnchanged

\* TwoKeysScriptGenerator.set_recovery and ThreeKeysScriptGenerator.set_recovery
SetRecovery ==
    /\ g_pc = "idle"
    /\ IF g_kind \in ThreeKeyKinds
       THEN /\ policy_flag' = <<Op("OP_0") \o Op("OP_0")>>
            /\ witness_flags' = <<0, 0>>
       ELSE /\ policy_flag' = <<Op("OP_0")>>
            /\ witness_flags' = <<0>>
    /\ last_set' = "recovery"
    /\ UNCHANGED <<g_kind, recovery_pubkey, instant_pubkey, g_pc, g_call>>
    /\ ScriptUnchanged

\* set_instant with the two flags of lines 134-135 in the other order
SetInstantFlagsReversed ==
    /\ g_pc = "idle"
    /\ g_kind \in ThreeKeyKinds
    /\ policy_flag' = <<Op("OP_0") \o Op("OP_1")>>
    /\ witness_flags' = <<0, 1>>
    /\ last_set' = "instant"
    /\ UNCHANGED <<g_kind, recovery_pubkey, instant_pubkey, g_pc, g_call>>
    /\ ScriptUnchanged

\* ThreeKeysScriptGenerator.set_instant
SetInstant ==
    /\ g_pc = "idle"
    /\ g_kind \in ThreeKeyKinds
    /\ policy_flag' = <<Op("OP_1") \o Op("OP_0")>>
    /\ witness_flags' = <<1, 0>>
    /\ last_set' = "instant"
    /\ UNCHANGED <<g_kind, recovery_pubkey, instant_pubkey, g_pc, g_call>>
    /\ ScriptUnchanged

\* a call of get_redeem_script returns or raises
GetRedeemScript(public_keys) ==
    /\ g_pc = "idle"
    /\ g_pc' = "done"
    /\ LET res == get_redeem_script(public_keys) IN
       g_call' = [op |-> "get_redeem_script", keys |-> public_keys, sigs |-> << >>,
                  exc |-> res.exc, value |-> res.value]
    /\ UNCHANGED <<g_kind, recovery_pubkey, instant_pubkey, policy_flag, witness_flags, last_set>>
    /\ ScriptUnchanged

\* a get_script_sig that uses the policy up: the flag is unset again once the
\* script-sig is built
GetScriptSigUsesPolicyUp(signatures, public_keys) ==
    /\ g_pc = "idle"
    /\ g_pc' = "done"
    /\ LET res == get_script_sig(signatures, public_keys) IN
       /\ g_call' = [op |-> "get_script_sig", keys |-> public_keys, sigs |-> signatures,
                     exc |-> res.exc, value |-> res.value]
       /\ policy_flag' = IF res.exc = "ok" THEN << >> ELSE policy_flag
       /\ witness_flags' = IF res.exc = "ok" THEN << >> ELSE witness_flags
    /\ UNCHANGED <<g_kind, recovery_pubkey, instant_pubkey, last_set>>
    /\ ScriptUnchanged

\* a call of get_script_sig returns or raises
GetScriptSig(signatures, public_keys) ==
    /\ g_pc = "idle"
    /\ g_pc' = "done"
    /\ LET res == get_script_sig(signatures, public_keys) IN
       g_call' = [op |-> "get_script_sig", keys |-> public_keys, sigs |-> signatures,
                  exc |-> res.exc, value |-> res.value]
    /\ UNCHANGED <<g_kind, recovery_pubkey, instant_pubkey, policy_flag, witness_flags, last_set>>
    /\ ScriptUnchanged

\* is_recovery_mode as the three-key classes would inherit it from line 68
is_recovery_modeInherited == witness_flags = <<0>>

\* the mode queries: is_recovery_mode of the two-key and of the three-key
\* classes, is_alert_mode, and is_instant_mode of the three-key classes
is_recovery_mode == witness_flags = IF g_kind \in ThreeKeyKinds THEN <<0, 0>> ELSE <<0>>
is_alert_mode == witness_flags = <<1>>
is_instant_mode == witness_flags = <<1, 0>>

\* a call of a mode query returns
ModeQuery(op, result) ==
    /\ g_pc = "idle"
    /\ g_pc' = "done"
    /\ g_call' = [op |-> op, keys |-> NoCall.keys, sigs |-> << >>, exc |-> "ok", value |-> result]
    /\ UNCHANGED <<g_kind, recovery_pubkey, instant_pubkey, policy_flag, witness_flags, last_set>>
    /\ ScriptUnchanged

IsRecoveryMode == ModeQuery("is_recovery_mode", is_recovery_mode)
IsAlertMode == ModeQuery("is_alert_mode", is_alert_mode)
IsInstantMode == g_kind \in ThreeKeyKinds /\ ModeQuery("is_instant_mode", is_instant_mode)

\* the caller has the result and goes on
ScriptReturn ==
    /\ g_pc = "done"
    /\ g_pc' = "idle"
    /\ g_call' = NoCall
    /\ UNCHANGED <<g_kind, recovery_pubkey, instant_pubkey, policy_flag, witness_flags, last_set>>
    /\ ScriptUnchanged

ScriptNext ==
    \/ SetAlert
    \/ SetRecovery
    \/ SetInstant
    \/ \E public_keys \in KeyInputs : GetRedeemScript(public_keys)
    \/ \E signatures \in SigLists : \E public_keys \in KeyInputs : GetScriptSig(signatures, public_keys)
    \/ IsRecoveryMode
    \/ IsAlertMode
    \/ IsInstantMode
    \/ ScriptReturn

SpecScript == ScriptInit /\ [][ScriptNext]_vars

(***************************************************************************)
(* i18n.convert_to_iso_639_1, called by EmailNotificationWizard._subscribe  *)
(* with the language of the configuration.  A string is the sequence of its *)
(* characters.                                                              *)
(***************************************************************************)
Letters == {"e", "E", "n", "N"}
Separators == {"_", "-", " "}
Chars == Letters \cup Separators

\* str.lower, character by character
LowerChar(c) == CASE c = "E" -> "e" [] c = "N" -> "n" [] OTHER -> c
Lower(str) == [n \in DOMAIN str |-> LowerChar(str[n])]

\* convert_to_iso_639_1 that leaves the case as it is
convert_to_iso_639_1CaseKept(locale) ==
    IF Len(locale) < 2
    THEN [exc |-> "ValueError", value |-> << >>, msg |-> <<"m">> \o locale]
    ELSE [exc |-> "ok", value |-> SubSeq(locale, 1, 2), msg |-> << >>]

\* convert_to_iso_639_1: the message of the ValueError holds the argument
convert_to_iso_639_1(locale) ==
    IF Len(locale) < 2
    THEN [exc |-> "ValueError", value |-> << >>, msg |-> <<"m">> \o locale]
    ELSE [exc |-> "ok", value |-> Lower(SubSeq(locale, 1, 2)), msg |-> << >>]

Tags == UNION {[1..n -> Chars] : n \in 0..MaxTagLen}

I18nInit ==
    /\ VerifierIdle
    /\ MerkleIdle
    /\ ScriptIdle
    /\ I18nIdle
    /\ RestIdle

\* a call returns or raises
ConvertToIso(locale) ==
    /\ i_pc = "idle"
    /\ i_pc' = "done"
    /\ i_locale' = locale
    /\ i_result' = convert_to_iso_639_1(locale)
    /\ UNCHANGED <<vars_spv, vars_net, vars_wallet, vars_merkle, vars_script, vars_rest>>

\* the caller has the result and goes on
I18nReturn ==
    /\ i_pc = "done"
    /\ i_pc' = "idle"
    /\ i_locale' = << >>
    /\ i_result' = NoResult
    /\ UNCHANGED <<vars_spv, vars_net, vars_wallet, vars_merkle, vars_script, vars_rest>>

I18nNext ==
    \/ \E locale \in Tags : ConvertToIso(locale)
    \/ I18nReturn

SpecI18n == I18nInit /\ [][I18nNext]_vars

(***************************************************************************)
(* One call of verify_tx_is_in_block: its arguments, and what the server    *)
(* answers to get_transaction and get_block.                                *)
(***************************************************************************)
\* the server answers both requests, the second with block
Answered(block) == [kind |-> "block", block |-> block]
\* get_transaction or get_block raises
RequestFails == [kind |-> "error"]

\* verify_tx_is_in_block
verify_tx_is_in_block(tx, block_header, block_height, answer) ==
    IF block_header = << >>
    THEN [err |-> "MissingBlockHeader", pos |-> -1]
    ELSE IF answer.kind = "error"
    THEN [err |-> "NetworkError", pos |-> -1]
    ELSE VerifyTxIsInBlock(tx, answer.block, block_height)

\* the headers a caller may hold: none, or one of a chain
HeaderSnapshots == {<< >>} \cup {<<Header(c, h)>> : c \in Chains, h \in Heights}

VerifyInit ==
    /\ VerifierIdle
    /\ MerkleIdle
    /\ ScriptIdle
    /\ I18nIdle
    /\ DialogIdle
    /\ HandlerIdle
    /\ v_pc = "idle"
    /\ v_result = NoVerifyResult
    /\ \E tx \in TxIds, h \in Heights :
         /\ v_args \in [tx : {tx}, header : HeaderSnapshots, height : {h},
                        answer : {Answered(b) : b \in ServerBlocks(tx, h)} \cup {RequestFails}]

\* the call returns or raises
VerifyCall ==
    /\ v_pc = "idle"
    /\ v_pc' = "done"
    /\ v_result' = verify_tx_is_in_block(v_args.tx, v_args.header, v_args.height, v_args.answer)
    /\ UNCHANGED <<v_args, vars_spv, vars_net, vars_wallet, vars_merkle, vars_script, vars_i18n,
                   vars_dialog, vars_handler>>

VerifyNext == VerifyCall

SpecVerify == VerifyInit /\ [][VerifyNext]_vars

(***************************************************************************)
(* The email notification dialogs: run_notification of                      *)
(* EmailNotificationWizard (with the skip checkbox) and of                  *)
(* EmailNotificationDialog (without), and run_update of                     *)
(* UpdateEmailNotificationDialog.  An error message is named by the class   *)
(* of the error it is the message of.                                       *)
(***************************************************************************)
DialogKinds == {"wizard", "dialog", "update"}
\* what the email field accepts
Emails == {"e1", "e2"}
ApiErrors == {"EmailNotificationApiError", "EmailAlreadySubscribedError", "TokenError",
              "NoMorePINAttemptsError"}
\* what a request of the connector ends with: it returns, raises one of
\* ApiErrors, or raises an exception no except clause of the dialogs names
\* (IndexError or AttributeError of the wrapper, KeyError of set_token)
Outcomes == {"ok"} \cup ApiErrors \cup {"Exception"}

DialogUnchanged ==
    UNCHANGED <<vars_spv, vars_net, vars_wallet, vars_merkle, vars_script, vars_i18n, vars_verify,
                vars_handler>>

\* _choose_email / _change_email up to exec_layout: the layout shows self._error_message
EnterEmailView(method, error_msg) ==
    /\ d_pc' = "email"
    /\ d_method' = method
    /\ d_view' = [email |-> "", error |-> error_msg, pending |-> FALSE, auto |-> 0]
    /\ UNCHANGED <<d_auto, d_switch>>

\* confirm_pin whose auto_resend_logic leaves _auto_resend_request as it is
EnterPinViewKeepsFlag(method, email, error_msg) ==
    /\ d_pc' = "pin"
    /\ d_method' = method
    /\ d_view' = [email |-> email, error |-> IF d_auto THEN "" ELSE error_msg, pending |-> d_auto,
                  auto |-> IF d_auto THEN 1 ELSE 0]
    /\ d_auto' = d_auto
    /\ d_switch' = IF d_auto /\ d_kind = "update" THEN TRUE ELSE d_switch

\* confirm_pin up to exec_layout: the layout, then auto_resend_logic, which
\* UpdateEmailNotificationDialog overrides to switch the resend strategy;
\* resend_request begins with clear_error
EnterPinView(method, email, error_msg) ==
    /\ d_pc' = "pin"
    /\ d_method' = method
    /\ d_view' = [email |-> email, error |-> IF d_auto THEN "" ELSE error_msg, pending |-> d_auto,
                  auto |-> IF d_auto THEN 1 ELSE 0]
    /\ d_auto' = FALSE
    /\ d_switch' = IF d_auto /\ d_kind = "update" THEN TRUE ELSE d_switch

\* the view method returns state
ViewReturns(state) ==
    /\ d_pc' = "returned"
    /\ d_result' = state
    /\ d_view' = NoView

\* an exception leaves the view method and the run
ViewRaises ==
    /\ d_pc' = "end"
    /\ d_result' = "raised"
    /\ d_view' = NoView

\* exec_layout of the email view ends with UserCancelled ("ERROR") or GoBack ("BACK")
EmailViewLeft(state) ==
    /\ d_pc = "email"
    /\ ViewReturns(state)
    /\ UNCHANGED <<d_kind, d_method, d_email, d_new_email, d_error, d_auto, d_switch, d_api,
                   notification_email>>
    /\ DialogUnchanged

\* _choose_email after Next: the skip checkbox, or _subscribe
ChooseEmail(email, skipped, outcome) ==
    /\ d_pc = "email"
    /\ d_method = "choose_email"
    /\ skipped => d_kind = "wizard"
    /\ email = "" => skipped
    /\ d_email' = email
    /\ IF skipped
       THEN /\ ViewReturns("ERROR")
            /\ UNCHANGED <<d_error, d_api, notification_email>>
       ELSE /\ d_api' = [call |-> "subscribe", outcome |-> outcome]
            /\ IF outcome = "ok"
               THEN /\ d_error' = ""
                    /\ ViewReturns("NEXT")
                    /\ UNCHANGED notification_email
               ELSE IF outcome \notin ApiErrors
               THEN /\ ViewRaises
                    /\ UNCHANGED <<d_error, notification_email>>
               ELSE /\ d_error' = outcome
                    /\ IF outcome = "EmailAlreadySubscribedError"
                       THEN /\ notification_email' = email
                            /\ ViewReturns("SHOW_EMAIL_SUBSCRIBED")
                       ELSE /\ ViewReturns("CONTINUE")
                            /\ UNCHANGED notification_email
    /\ UNCHANGED <<d_kind, d_method, d_new_email, d_auto, d_switch>>
    /\ DialogUnchanged

\* _change_email after Next: the layout refuses the current email
ChangeEmail(email, outcome) ==
    /\ d_pc = "email"
    /\ d_method = "change_email"
    /\ email # d_email
    /\ d_new_email' = email
    /\ d_api' = [call |-> "modify", outcome |-> outcome]
    /\ IF outcome = "ok"
       THEN d_error' = "" /\ ViewReturns("NEXT")
       ELSE IF outcome \notin ApiErrors
       THEN ViewRaises /\ UNCHANGED d_error
       ELSE d_error' = outcome /\ ViewReturns("CONTINUE")
    /\ UNCHANGED <<d_kind, d_method, d_email, d_auto, d_switch, notification_email>>
    /\ DialogUnchanged

\* confirm_pin, lines 441-446: exec_layout ended with UserCancelled or GoBack
PinViewLeft(state) ==
    /\ d_pc = "pin"
    /\ d_error' = ""
    /\ ViewReturns(state)
    /\ UNCHANGED <<d_kind, d_method, d_email, d_new_email, d_auto, d_switch, d_api, notification_email>>
    /\ DialogUnchanged

\* EmailNotificationWizard.apply_pin_error_logic, but for the State it returns, CONTINUE
ApplyPinErrorLogic(error) ==
    /\ d_error' = error
    /\ d_auto' = IF error \in {"NoMorePINAttemptsError", "TokenError"} THEN TRUE ELSE d_auto

\* UpdateEmailNotificationDialog.apply_pin_error_logic
ApplyPinErrorLogicOfUpdate(error) ==
    /\ ApplyPinErrorLogic(error)
    /\ ViewReturns(IF d_auto' THEN "SKIP_EMAIL_VIEW" ELSE "CONTINUE")

\* confirm_pin, lines 447-452: authenticate with the PIN typed
ConfirmPin(outcome) ==
    /\ d_pc = "pin"
    /\ d_api' = [call |-> "authenticate", outcome |-> outcome]
    /\ IF outcome = "ok"
       THEN /\ ViewReturns("NEXT")
            /\ UNCHANGED <<d_error, d_auto>>
       ELSE IF outcome \notin ApiErrors
       THEN /\ ViewRaises
            /\ UNCHANGED <<d_error, d_auto>>
       ELSE IF d_kind = "update"
       THEN ApplyPinErrorLogicOfUpdate(outcome)
       ELSE ApplyPinErrorLogic(outcome) /\ ViewReturns("CONTINUE")
    /\ UNCHANGED <<d_kind, d_method, d_email, d_new_email, d_switch, notification_email>>
    /\ DialogUnchanged

\* PinConfirmationLayout.resend_request, by the Resend button
ResendClicked ==
    /\ d_pc = "pin"
    /\ ~d_view.pending
    /\ d_view' = [d_view EXCEPT !.pending = TRUE, !.error = ""]
    /\ UNCHANGED <<d_kind, d_pc, d_method, d_result, d_email, d_new_email, d_error, d_auto, d_switch,
                   d_api, notification_email>>
    /\ DialogUnchanged

\* the request the strategy's resend makes is the one of the main flow
MainFlowRequest == d_kind # "update" \/ d_switch

\* the resend task ends: ResendStrategy.resend, then on_success, or
\* PinConfirmationLayout.on_error; after a TokenError loop.exit(1) ends
\* exec_layout with GoBack or with UserCancelled, as InstallWizard has it
ResendEnds(outcome, state) ==
    /\ d_pc = "pin"
    /\ d_view.pending
    /\ IF outcome = "ok"
       THEN /\ d_error' = IF MainFlowRequest THEN "" ELSE d_error
            /\ d_switch' = FALSE
            /\ d_view' = [d_view EXCEPT !.pending = FALSE]
            /\ UNCHANGED <<d_pc, d_result>>
       ELSE IF outcome = "TokenError"
       THEN /\ d_error' = ""
            /\ ViewReturns(state)
            /\ UNCHANGED d_switch
       ELSE /\ d_view' = [d_view EXCEPT !.pending = FALSE, !.error = outcome]
            /\ UNCHANGED <<d_pc, d_result, d_error, d_switch>>
    /\ UNCHANGED <<d_kind, d_method, d_email, d_new_email, d_auto, d_api, notification_email>>
    /\ DialogUnchanged

\* the end of run_notification and of run_update: save_notification_email or not
RunEnds(saved, email) ==
    /\ d_pc' = "end"
    /\ notification_email' = IF saved THEN email ELSE notification_email
    /\ UNCHANGED <<d_method, d_view, d_auto, d_switch, d_error>>

\* run_notification that saves the email however the views ended
RunNotificationLoopSavesAlways ==
    IF d_result = "CONTINUE"
    THEN /\ IF d_method = "choose_email"
            THEN EnterEmailView("choose_email", d_error)
            ELSE EnterPinView("confirm_pin", d_email, d_error)
         /\ UNCHANGED <<d_error, notification_email>>
    ELSE IF d_method = "choose_email" /\ d_result = "NEXT"
    THEN /\ EnterPinView("confirm_pin", d_email, d_error)
         /\ UNCHANGED <<d_error, notification_email>>
    ELSE IF d_method = "confirm_pin" /\ d_result = "BACK"
    THEN /\ EnterEmailView("choose_email", d_error)
         /\ UNCHANGED <<d_error, notification_email>>
    ELSE RunEnds(TRUE, d_email)

\* run_single_view and the loop of run_notification, on what the view method returned
RunNotificationLoop ==
    IF d_result = "CONTINUE"
    THEN /\ IF d_method = "choose_email"
            THEN EnterEmailView("choose_email", d_error)
            ELSE EnterPinView("confirm_pin", d_email, d_error)
         /\ UNCHANGED <<d_error, notification_email>>
    ELSE IF d_method = "choose_email" /\ d_result = "NEXT"
    THEN /\ EnterPinView("confirm_pin", d_email, d_error)
         /\ UNCHANGED <<d_error, notification_email>>
    ELSE IF d_method = "confirm_pin" /\ d_result = "BACK"
    THEN /\ EnterEmailView("choose_email", d_error)
         /\ UNCHANGED <<d_error, notification_email>>
    ELSE RunEnds(d_result \in {"NEXT", "SHOW_EMAIL_SUBSCRIBED"}, d_email)

\* run_update that saves once the current address is confirmed, without lines 533-539
RunUpdateLoopOneConfirmation ==
    IF d_result = "CONTINUE"
    THEN /\ IF d_method = "change_email"
            THEN EnterEmailView("change_email", d_error)
            ELSE EnterPinView(d_method, IF d_method = "confirm_pin" THEN d_email ELSE d_new_email,
                              d_error)
         /\ UNCHANGED <<d_error, notification_email>>
    ELSE IF d_method = "change_email"
    THEN IF d_result = "NEXT"
         THEN /\ EnterPinView("confirm_pin", d_email, d_error)
              /\ UNCHANGED <<d_error, notification_email>>
         ELSE RunEnds(FALSE, d_new_email)
    ELSE IF d_method = "confirm_pin" /\ d_result = "NEXT"
    THEN RunEnds(TRUE, d_new_email)
    ELSE IF d_result = "BACK"
    THEN /\ EnterEmailView("change_email", d_error)
         /\ UNCHANGED <<d_error, notification_email>>
    ELSE IF d_result = "SKIP_EMAIL_VIEW"
    THEN /\ EnterPinView("confirm_pin", d_email, d_error)
         /\ UNCHANGED <<d_error, notification_email>>
    ELSE RunEnds(d_result = "NEXT", d_new_email)

\* run_single_view and the loop of run_update
RunUpdateLoop ==
    IF d_result = "CONTINUE"
    THEN /\ IF d_method = "change_email"
            THEN EnterEmailView("change_email", d_error)
            ELSE EnterPinView(d_method, IF d_method = "confirm_pin" THEN d_email ELSE d_new_email,
                              d_error)
         /\ UNCHANGED <<d_error, notification_email>>
    ELSE IF d_method = "change_email"
    THEN IF d_result = "NEXT"
         THEN /\ EnterPinView("confirm_pin", d_email, d_error)
              /\ UNCHANGED <<d_error, notification_email>>
         ELSE RunEnds(FALSE, d_new_email)
    ELSE IF d_method = "confirm_pin" /\ d_result = "NEXT"
    THEN /\ d_error' = ""
         /\ EnterPinView("confirm_new_pin", d_new_email, "")
         /\ UNCHANGED notification_email
    ELSE IF d_result = "BACK"
    THEN /\ EnterEmailView("change_email", d_error)
         /\ UNCHANGED <<d_error, notification_email>>
    ELSE IF d_result = "SKIP_EMAIL_VIEW"
    THEN /\ EnterPinView("confirm_pin", d_email, d_error)
         /\ UNCHANGED <<d_error, notification_email>>
    ELSE RunEnds(d_result = "NEXT", d_new_email)

\* the run goes on after a view method has returned
RunLoop ==
    /\ d_pc = "returned"
    /\ IF d_kind = "update" THEN RunUpdateLoop ELSE RunNotificationLoop
    /\ UNCHANGED <<d_kind, d_result, d_email, d_new_email, d_api>>
    /\ DialogUnchanged

\* run_notification / run_update begins: what_next is BACK and the email view is shown
RunStart ==
    /\ d_kind \in DialogKinds
    /\ d_pc = "start"
    /\ d_result' = "BACK"
    /\ EnterEmailView(IF d_kind = "update" THEN "change_email" ELSE "choose_email", d_error)
    /\ UNCHANGED <<d_kind, d_email, d_new_email, d_error, d_api, notification_email>>
    /\ DialogUnchanged

\* the dialog is built: WalletNotificationsMainDialog._update gives the update
\* dialog the email of the wallet
DialogInit ==
    /\ VerifierIdle
    /\ MerkleIdle
    /\ ScriptIdle
    /\ I18nIdle
    /\ VerifyIdle
    /\ HandlerIdle
    /\ d_kind \in DialogKinds
    /\ d_pc = "start"
    /\ d_method = "none"
    /\ d_result = "none"
    /\ notification_email = IF d_kind = "update" THEN "e1" ELSE ""
    /\ d_email = notification_email
    /\ d_new_email = ""
    /\ d_error = ""
    /\ d_auto = FALSE
    /\ d_switch = FALSE
    /\ d_view = NoView
    /\ d_api = NoApi

DialogNext ==
    \/ RunStart
    \/ \E state \in {"ERROR", "BACK"} : EmailViewLeft(state)
    \/ \E email \in Emails \cup {""}, skipped \in BOOLEAN, outcome \in Outcomes :
           ChooseEmail(email, skipped, outcome)
    \/ \E email \in Emails, outcome \in Outcomes : ChangeEmail(email, outcome)
    \/ \E state \in {"ERROR", "BACK"} : PinViewLeft(state)
    \/ \E outcome \in Outcomes : ConfirmPin(outcome)
    \/ ResendClicked
    \/ \E outcome \in Outcomes, state \in {"ERROR", "BACK"} : ResendEnds(outcome, state)
    \/ RunLoop

SpecDialog == DialogInit /\ [][DialogNext]_vars

(***************************************************************************)
(* The connector of the email notification service: request_error_handler  *)
(* around a method of Connector, and mapping_errors.  A string of a        *)
(* response is the sequence of the pieces the code tells apart: a prefix,  *)
(* a number, a captured group.                                             *)
(***************************************************************************)
ConnectorMethods == {"subscribe_wallet", "authenticate", "check_subscription", "unsubscribe_wallet",
                     "modify_email", "resend"}

\* the values 'msg' may have in a body: strings, and null for what is no string
NotAString == [str |-> FALSE, toks |-> << >>]
String(toks) == [str |-> TRUE, toks |-> toks]
Messages ==
    { String(<< >>),
      String(<<"Trials left", ": ", "2">>),
      String(<<"Trials left">>),
      String(<<"No more trials left">>),
      String(<<"Request timeout">>),
      String(<<"Invalid wallet data: ", "e1", " is already subscribed to ", "w1">>),
      String(<<"Invalid wallet data: ", "e1">>),
      String(<<"Internal server error">>),
      NotAString }

\* a JSON object with the keys it has
ObjectOf(has_result, result, has_msg, msg) ==
    [k \in (IF has_result THEN {"result"} ELSE {}) \cup (IF has_msg THEN {"msg"} ELSE {}) |->
        IF k = "result" THEN String(<<result>>) ELSE msg]

\* response.text: no JSON, JSON that is no object, or an object
Bodies ==
    {[kind |-> "undecodable"], [kind |-> "array"]} \cup
    {[kind |-> "object", data |-> ObjectOf(has_result, result, has_msg, msg)] :
        has_result \in BOOLEAN, result \in {"error", "ok"}, has_msg \in BOOLEAN, msg \in Messages}

StatusCodes == {200, 400, 401, 408, 429, 500}

\* the exceptions of requests a request may end with
RequestExceptions == {"ConnectTimeout", "ReadTimeout", "ConnectionError", "ChunkedEncodingError"}

\* what fun(*args, **kwargs) ends with
FunResults ==
    [kind : {"response"}, status_code : StatusCodes, body : Bodies] \cup
    [kind : {"raises"}, exc : RequestExceptions]

\* dict.get
Get(data, key, default) == IF key \in DOMAIN data THEN data[key] ELSE default

\* str.startswith
StartsWith(message, prefix) == Len(message.toks) > 0 /\ message.toks[1] = prefix

\* re.findall('[0-9]+', message)
IsNumber(tok) == tok \in {"0", "1", "2", "3"}
FindNumbers(message) == SelectSeq(message.toks, IsNumber)

\* email_already_subscribed_pattern.match(message)
email_already_subscribed_pattern(message) ==
    /\ Len(message.toks) = 4
    /\ message.toks[1] = "Invalid wallet data: "
    /\ message.toks[3] = " is already subscribed to "

\* mapping_errors: the class of the exception it returns, or of the one it
\* raises itself
mapping_errors(message, http_status_code) ==
    IF http_status_code = 401 /\ ~message.str THEN "AttributeError"
    ELSE IF http_status_code = 401 /\ StartsWith(message, "Trials left")
    THEN IF FindNumbers(message) = << >> THEN "IndexError" ELSE "EmailNotificationApiError"
    ELSE IF http_status_code = 429 /\ ~message.str THEN "AttributeError"
    ELSE IF http_status_code = 429 /\ StartsWith(message, "No more trials left")
    THEN "NoMorePINAttemptsError"
    ELSE IF http_status_code = 408 /\ ~message.str THEN "AttributeError"
    ELSE IF http_status_code = 408 /\ StartsWith(message, "Request timeout")
    THEN "TokenError"
    ELSE IF http_status_code = 400 /\ ~message.str THEN "TypeError"
    ELSE IF http_status_code = 400 /\ email_already_subscribed_pattern(message)
    THEN "EmailAlreadySubscribedError"
    ELSE "EmailNotificationApiError"

HandlerRaises(exc) == [kind |-> "raise", exc |-> exc]
HandlerReturns(value) == [kind |-> "return", value |-> value]

\* the wrapper of request_error_handler on what fun ended with
request_error_handler(fun) ==
    IF fun.kind = "raises"
    THEN IF fun.exc \in {"ConnectTimeout", "ReadTimeout", "ConnectionError"}
         THEN HandlerRaises("EmailNotificationApiError")
         ELSE HandlerRaises(fun.exc)
    ELSE IF fun.body.kind = "undecodable"
    THEN HandlerRaises("EmailNotificationApiError")
    ELSE IF fun.status_code >= 400
    THEN IF fun.body.kind # "object"
         THEN HandlerRaises("AttributeError")
         ELSE HandlerRaises(mapping_errors(
                  IF Get(fun.body.data, "result", String(<< >>)) = String(<<"error">>)
                  THEN Get(fun.body.data, "msg", String(<< >>))
                  ELSE String(<< >>),
                  fun.status_code))
    ELSE HandlerReturns(fun.body)

HandlerInit ==
    /\ VerifierIdle
    /\ MerkleIdle
    /\ ScriptIdle
    /\ I18nIdle
    /\ VerifyIdle
    /\ DialogIdle
    /\ HandlerIdle

\* one call of a method of Connector
ConnectorCall(method, fun) ==
    /\ h_pc = "idle"
    /\ h_pc' = "done"
    /\ h_fun' = [method |-> method, fun |-> fun]
    /\ h_outcome' = request_error_handler(fun)
    /\ UNCHANGED <<vars_spv, vars_net, vars_wallet, vars_merkle, vars_script, vars_i18n, vars_verify,
                   vars_dialog>>

HandlerNext == \E method \in ConnectorMethods, fun \in FunResults : ConnectorCall(method, fun)

SpecHandler == HandlerInit /\ [][HandlerNext]_vars

(***************************************************************************)
(* The verifier's specification.                                            *)
(***************************************************************************)
Init ==
    /\ merkle_roots = EmptyMap
    /\ requested_merkle = {}
    /\ cur_chain = "A"
    /\ blockchain = cur_chain
    /\ group = "running"
    /\ raised = NoRaise
    /\ redone = {}
    /\ main_pc = "loop"
    /\ tasks = {}
    /\ chunk_tasks = {}
    /\ removals = 0
    /\ tip = [c \in Chains |-> IF c = "A" THEN MaxHeight ELSE ForkHeight]
    /\ chunked = {}
    /\ bhi_lock = FALSE
    /\ skipmerklecheck \in BOOLEAN
    /\ unverified_tx \in [TxIds -> [height : 0..MaxHeight, txtype : TxTypes]]
    /\ \A tx \in TxIds : unverified_tx[tx].txtype \in TypesOf(tx)
    /\ verified_tx = EmptyMap
    /\ MerkleIdle
    /\ ScriptIdle
    /\ I18nIdle
    /\ RestIdle

Next ==
    \/ MaybeUndoVerifications
    \/ RequestProofs
    \/ \E t \in tasks : MarkAsVerified(t)
    \/ \E t \in tasks : ProofWaitLock(t)
    \/ \E t \in tasks : ProofSnapshot(t)
    \/ \E t \in tasks : \E block \in ServerBlocks(t.tx, t.height) : ProofFetched(t, block)
    \/ \E t \in tasks : ProofFetchFailed(t)
    \/ \E tx \in TxIds : RemoveSpvProofForTx(tx)
    \/ Restart
    \/ \E h \in Heights : ChunkArrives(h)
    \/ NetLock
    \/ NetUnlock
    \/ \E c \in Chains : HeaderSync(c)
    \/ Reorg

\* a task the scan has just spawned takes its first step
TaskStart == \E t \in tasks : MarkAsVerified(t) \/ ProofWaitLock(t) \/ ProofSnapshot(t)

Spec == Init /\ [][Next]_vars

\* the event loop runs whatever is ready: main after its sleep, a spawned
\* task up to its first await, and the job's restart once its group is down
\* a wallet with one confirmed transaction; t2 is still unconfirmed
FairInit == Init /\ unverified_tx["t2"].height = 0

FairSpec ==
    /\ FairInit
    /\ [][Next]_vars
    /\ WF_vars(MaybeUndoVerifications)
    /\ WF_vars(RequestProofs)
    /\ WF_vars(TaskStart)
    /\ WF_vars(Restart)

(***************************************************************************)
(* hash_merkle_root on the branch of a leaf.                                *)
(***************************************************************************)
\* the call is made with the branch of leaf m_pos of the tree m_names, and
\* that leaf's hash
HonestCall ==
    /\ m_pos \in 0..(Len(m_names) - 1)
    /\ m_branch = ServerBranch(m_names, m_pos)
    /\ m_tx = TxHash(m_names[m_pos + 1])

\* the nodes from the leaf's parent up to the root
PathNodes == AncestorsOf(LeafLevel(m_names), m_pos)

\* C10, as stated: for every tree of depth k <= MaxDepth, every leaf index
\* i < 2^k and that leaf's sibling path, hash_merkle_root returns the tree's
\* root
C10_AnyTreeReturnsRoot ==
    (m_pc = "done" /\ HonestCall) =>
        (m_result.err = "ok" /\ m_result.root = PublishedRoot(m_names))

\* C10, amended: hash_merkle_root returns the tree's root, combining the
\* sibling on the side the index bits give, unless a node between the leaf's
\* parent and the root deserializes as a transaction; then it raises
\* InnerNodeOfSpvProofIsValidTx and returns no root
C10_ReturnsRootUnlessInnerNodeIsTx ==
    (m_pc = "done" /\ HonestCall) =>
        IF PathNodes \cap tx_oracle = {}
        THEN m_result.err = "ok" /\ m_result.root = PublishedRoot(m_names)
        ELSE m_result.err = "InnerNodeOfSpvProofIsValidTx" /\ m_result.root = NoRoot

\* a tree of the full depth, a leaf with a sibling on each side on its way up
C10_Witness ==
    /\ m_pc = "done"
    /\ HonestCall
    /\ Len(m_names) = Pow2(MaxDepth)
    /\ m_pos = 1
    /\ m_names[1] # m_names[2]
    /\ tx_oracle = {}
    /\ m_result.root = PublishedRoot(m_names)

\* MerkleVerificationFailure or a subclass of it (lines 44-47)
IsMerkleVerificationFailure(err) ==
    err \in {"MerkleVerificationFailure", "InnerNodeOfSpvProofIsValidTx"}

\* the arguments can be decoded (lines 148-153 raise nothing)
Decodable == CanHashDecode(m_tx) /\ \A n \in DOMAIN m_branch : CanHashDecode(m_branch[n])

C11_Malformed ==
    \/ m_pos < 0
    \/ \E n \in DOMAIN m_branch : hash_decode(m_branch[n]).len # 32
    \/ m_pos >= Pow2(Len(m_branch))

\* C11: hash_merkle_root fails with MerkleVerificationFailure whenever the
\* position is negative, a branch item is not 32 bytes long, or the position
\* is 2^len(branch) or more; it returns a root only when none of these hold,
\* so an empty branch is accepted for position 0 only
C11_MalformedArgumentsFail ==
    (m_pc = "done" /\ Decodable) =>
        /\ C11_Malformed => (IsMerkleVerificationFailure(m_result.err) /\ m_result.root = NoRoot)
        /\ m_result.err = "ok" => ~C11_Malformed
        /\ (m_branch = << >> /\ m_result.err = "ok") => m_pos = 0

\* a branch of 32-byte items and a position too large for it
C11_Witness ==
    /\ m_pc = "done"
    /\ Decodable
    /\ m_branch # << >>
    /\ \A n \in DOMAIN m_branch : hash_decode(m_branch[n]).len = 32
    /\ m_pos >= Pow2(Len(m_branch))
    /\ tx_oracle = {}
    /\ m_result.err = "MerkleVerificationFailure"

\* the hashes the combining steps produce, up to the first item that is not
\* 32 bytes long
RECURSIVE ComputedNodes(_, _, _, _)
ComputedNodes(branch, n, h, index) ==
    IF n > Len(branch) \/ branch[n].len # 32 THEN << >>
    ELSE LET h2 == IF index % 2 = 1 THEN sha256d(branch[n], h) ELSE sha256d(h, branch[n])
         IN  <<h2>> \o ComputedNodes(branch, n + 1, h2, index \div 2)

C12_Nodes ==
    ComputedNodes([n \in DOMAIN m_branch |-> hash_decode(m_branch[n])], 1, hash_decode(m_tx), m_pos)

\* C12: hash_merkle_root checks the hash of every combining step, the last
\* one included, and raises InnerNodeOfSpvProofIsValidTx at the first that
\* deserializes as a transaction: it returns no root for a branch along
\* which a computed node is a valid transaction
C12_InnerNodeIsTxAborts ==
    (m_pc = "done" /\ Decodable /\ m_pos >= 0) =>
        /\ (\E n \in DOMAIN C12_Nodes : C12_Nodes[n] \in tx_oracle) =>
              (m_result.err = "InnerNodeOfSpvProofIsValidTx" /\ m_result.root = NoRoot)
        /\ m_result.err = "InnerNodeOfSpvProofIsValidTx" =>
              \E n \in DOMAIN C12_Nodes : C12_Nodes[n] \in tx_oracle

\* the last hash, the root, is the one that is a valid transaction
C12_Witness ==
    /\ m_pc = "done"
    /\ HonestCall
    /\ Len(m_branch) >= 2
    /\ C12_Nodes[Len(m_branch)] \in tx_oracle
    /\ \A n \in 1..(Len(m_branch) - 1) : C12_Nodes[n] \notin tx_oracle
    /\ m_result.err = "InnerNodeOfSpvProofIsValidTx"

(***************************************************************************)
(* The verifier's bookkeeping.                                              *)
(***************************************************************************)
\* C2: at every instant no transaction hash is both in requested_merkle and
\* a key of merkle_roots
C2_PendingAndVerifiedDisjoint == requested_merkle \cap DOMAIN merkle_roots = {}

\* one proof is cached while the proof of another transaction is requested
C2_Witness ==
    /\ "t1" \in DOMAIN merkle_roots
    /\ "t2" \in requested_merkle
    /\ \E t \in tasks : t.tx = "t2" /\ t.pc = "fetch"

\* the branches a server can send for a transaction of a block it knows
KnownBlocks == ChainBlocks \cup {ForgedBlock(t, h) : t \in TxIds, h \in Heights}
KnownBranches == {ServerBranch(b.tx, i) : b \in KnownBlocks, i \in 0..1}

\* C1, as stated: with skipmerklecheck off, a transaction is cached in
\* merkle_roots and delivered to the wallet only if the root recomputed from
\* its hash, the server's branch and the delivered position equals the
\* merkle_root of the header it was verified against
C1_VerifiedOnlyIfRootMatches ==
    ~skipmerklecheck =>
        \A tx \in DOMAIN merkle_roots \cap DOMAIN verified_tx :
            \E branch \in KnownBranches :
                LET res == HashMerkleRoot(branch, TxHash(TxName(tx)), verified_tx[tx].txpos, {})
                IN  res.err = "ok" /\ res.root = merkle_roots[tx]

\* C3: when _maybe_undo_verifications finds another chain, with common
\* height H, every verified transaction above H is afterwards in neither
\* merkle_roots nor requested_merkle and unverified again, and the
\* merkle_roots entry of every other transaction is unchanged
C3_UndoStep ==
    /\ main_pc = "loop"
    /\ main_pc' = "scan"
    /\ cur_chain # blockchain

C3_UndoRemovesExactlyAboveForkNext ==
    C3_UndoStep =>
        LET H == LastCommonHeight(cur_chain, blockchain) IN
        \A tx \in TxIds :
            IF tx \in DOMAIN verified_tx /\ verified_tx[tx].height > H
            THEN /\ tx \notin DOMAIN merkle_roots'
                 /\ tx \notin requested_merkle'
                 /\ tx \notin DOMAIN verified_tx'
                 /\ tx \in DOMAIN unverified_tx'
            ELSE /\ (tx \in DOMAIN merkle_roots') = (tx \in DOMAIN merkle_roots)
                 /\ tx \in DOMAIN merkle_roots => merkle_roots'[tx] = merkle_roots[tx]
                 /\ (tx \in DOMAIN verified_tx') = (tx \in DOMAIN verified_tx)

C3_UndoRemovesExactlyAboveFork == [][C3_UndoRemovesExactlyAboveForkNext]_vars

\* an undo has just dropped one proof and kept the proof of a transaction
\* at or below the fork
C3_Witness ==
    /\ main_pc = "scan"
    /\ redone # {}
    /\ redone \cap (DOMAIN merkle_roots \cup requested_merkle) = {}
    /\ \E tx \in DOMAIN merkle_roots :
        tx \in DOMAIN verified_tx /\ verified_tx[tx].height <= ForkHeight

\* C4, as stated: once the scan loop has caught up with a reorganization and
\* no task is in flight, a cached proof is a proof against the header of the
\* chain now followed: a task that snapshotted its header before the
\* reorganization has left no stale entry behind
C4_NoStaleProofAfterReorg ==
    (GroupRunning /\ main_pc = "loop" /\ tasks = {} /\ blockchain = cur_chain) =>
        \A tx \in DOMAIN merkle_roots \cap DOMAIN verified_tx :
            LET header == ReadHeader(cur_chain, verified_tx[tx].height) IN
            /\ header # << >>
            /\ verified_tx[tx].header_hash = hash_header(header[1])
            /\ merkle_roots[tx] = header[1].merkle_root

\* C5: a scan dispatches a task only for a transaction that is neither
\* requested nor cached (one with a task in flight only after
\* an outside remove_spv_proof_for_tx), and a proof task that ends well caches
\* the merkle_root of the header it snapshotted: ending a second time with
\* the same header leaves merkle_roots as it was
C5_Dispatched(t) == t \in tasks' /\ t \notin tasks /\ t.pc = "start"
C5_EndedWell(t) ==
    /\ t \in tasks
    /\ t.kind = "proof"
    /\ t.pc = "fetch"
    /\ \A u \in tasks' : u.id # t.id
    /\ GroupRunning'

C5_NoRedispatchAndSameRootNext ==
    /\ \A t \in tasks' :
        C5_Dispatched(t) =>
            /\ t.tx \notin requested_merkle
            /\ t.tx \notin DOMAIN merkle_roots
            /\ TasksOf(t.tx) = {} \/ removals > 0
    /\ \A t \in tasks :
        C5_EndedWell(t) =>
            /\ merkle_roots'[t.tx] = t.header[1].merkle_root
            /\ (t.tx \in DOMAIN merkle_roots /\ merkle_roots[t.tx] = t.header[1].merkle_root)
                   => merkle_roots' = merkle_roots

C5_NoRedispatchAndSameRoot == [][C5_NoRedispatchAndSameRootNext]_vars

\* a second task of a transaction is about to end with the header the first
\* one cached the root of
C5_Witness ==
    \E t \in tasks :
        /\ t.pc = "fetch"
        /\ t.tx \in DOMAIN merkle_roots
        /\ merkle_roots[t.tx] = t.header[1].merkle_root

(***************************************************************************)
(* Failures.                                                                *)
(***************************************************************************)
\* a proof task raises GracefulDisconnect in this step
C6_Failure == raised = NoRaise /\ raised'.exc = "GracefulDisconnect"

\* C6, as stated: the failure of one transaction's task is local to it: the
\* main loop is not stopped and the tasks in flight for other transactions
\* stay in flight
C6_FailureIsLocalNext ==
    C6_Failure =>
        /\ GroupRunning'
        /\ \A t \in tasks : t.tx # raised'.tx => \E u \in tasks' : u.id = t.id

C6_FailureIsLocal == [][C6_FailureIsLocalNext]_vars

\* C6, amended: the GracefulDisconnect of one task ends the whole task
\* group: main and every task in flight are cancelled, the verifier's sets
\* and the wallet are left as they were, and nothing is dispatched until the
\* job is restarted
C6_FailureStopsGroupNext ==
    /\ C6_Failure =>
        /\ ~GroupRunning'
        /\ tasks' = {}
        /\ chunk_tasks' = {}
        /\ main_pc' = "loop"
        /\ UNCHANGED <<merkle_roots, requested_merkle, vars_wallet>>
    /\ ~GroupRunning => (tasks' = {} /\ main_pc' = "loop")

C6_FailureStopsGroup == [][C6_FailureStopsGroupNext]_vars

\* the group went down while the proof of another transaction was requested
C6_Witness ==
    /\ ~GroupRunning
    /\ raised.exc = "GracefulDisconnect"
    /\ tasks = {}
    /\ \E tx \in requested_merkle : tx # raised.tx

\* the header of tx's height can be read from the chain followed
HeaderAvailable(tx) ==
    /\ tx \in DOMAIN unverified_tx
    /\ ReadHeader(cur_chain, unverified_tx[tx].height) # << >>

ProofInFlight(tx) == \E t \in tasks : t.tx = tx /\ t.kind = "proof"

C7_Failed(tx) ==
    /\ ~GroupRunning
    /\ ~skipmerklecheck
    /\ raised.exc = "GracefulDisconnect"
    /\ raised.tx = tx

\* C7: with the override off, a transaction whose verification failed is
\* dispatched again later, provided its header stays readable from some
\* moment on: it is not left in requested_merkle without a task
C7_FailedIsRedispatched ==
    \A tx \in TxIds : (<>[]HeaderAvailable(tx)) => (C7_Failed(tx) ~> ProofInFlight(tx))

\* the failed transaction is still in requested_merkle, with no task
C7_Witness ==
    \E tx \in requested_merkle :
        /\ C7_Failed(tx)
        /\ raised.cause = "MerkleVerificationFailure"
        /\ HeaderAvailable(tx)
        /\ tasks = {}

\* task t sends no request in this step
C8_Snapshots(t) == \A u \in tasks' : u.id = t.id => u.pc # "fetch"
\* task t takes its last step: it ends, or raises
C8_Stepped(t) ==
    /\ \A u \in tasks' : u.id # t.id
    /\ raised' = raised \/ raised'.id = t.id

C8_MissingHeaderNext ==
    \A t \in tasks :
        (t.kind = "proof" /\ t.pc \in {"start", "lock"} /\ ReadHeader(cur_chain, t.height) = << >>) =>
            /\ C8_Snapshots(t)
            /\ C8_Stepped(t) =>
                /\ raised'.cause = "MissingBlockHeader"
                /\ raised'.id = t.id
                /\ ~GroupRunning'
                /\ UNCHANGED <<merkle_roots, vars_wallet>>

C8_Failed(tx) ==
    /\ ~GroupRunning
    /\ raised.cause = "MissingBlockHeader"
    /\ raised.tx = tx

C9_ExemptDeliveredNext ==
    \A t \in tasks :
        (t.kind = "mark" /\ C8_Stepped(t)) =>
            /\ t.tx \in DOMAIN verified_tx'
            /\ verified_tx'[t.tx].txtype = t.txtype

C9_ExemptNeverTrackedNext ==
    \A t \in tasks' :
        t.kind = "mark" =>
            /\ Exempt(t.txtype)
            /\ t.pc = "start"
            /\ t.tx \notin requested_merkle'
            /\ t.tx \notin DOMAIN merkle_roots'

C9_OthersOnlyByProofNext ==
    \A tx \in DOMAIN verified_tx' \ DOMAIN verified_tx :
        ~Exempt(verified_tx'[tx].txtype) =>
            \E t \in tasks : t.tx = tx /\ t.kind = "proof" /\ t.pc = "fetch" /\ C8_Stepped(t)

C9_ExemptVerifiedWithoutProof ==
    [][C9_ExemptDeliveredNext /\ C9_ExemptNeverTrackedNext /\ C9_OthersOnlyByProofNext]_vars

\* what of C9 holds: all but the delivery
C9_RestHolds == [][C9_ExemptNeverTrackedNext /\ C9_OthersOnlyByProofNext]_vars


(***************************************************************************)
(* The script generators.                                                   *)
(***************************************************************************)
\* a call of op has just returned or raised
Called(op) == g_pc = "done" /\ g_call.op = op
CalledNext(op) == g_pc = "idle" /\ g_pc' = "done" /\ g_call'.op = op

\* the key lists of the right arity from which the generator's class can tell
\* the alert key
NonRecovery(items) == {n \in DOMAIN items : items[n] # recovery_pubkey}
ValidKeyList(public_keys) ==
    /\ public_keys.islist
    /\ CASE g_kind = "2K" -> Len(public_keys.items) \in {1, 2}
                             /\ Cardinality(NonRecovery(public_keys.items)) = 1
         [] g_kind = "3K" -> Len(public_keys.items) \in 1..3
         [] g_kind = "2KHW" -> Len(public_keys.items) = 2
         [] g_kind = "3KHW" -> Len(public_keys.items) = 3

\* C13: with a valid key list, get_script_sig raises ThreeKeysError exactly when
\* no set_alert, set_recovery or set_instant was called on the generator since
\* it was constructed, and a call that fails leaves the policy flag and
\* witness_flags as they were.
C13_UnsetPolicyRaisesNext ==
    CalledNext("get_script_sig") =>
        /\ ValidKeyList(g_call'.keys) =>
               ((g_call'.exc = "ThreeKeysError") <=> (last_set = "none"))
        /\ g_call'.exc # "ok" => UNCHANGED <<policy_flag, witness_flags>>

C13_UnsetPolicyRaises == [][C13_UnsetPolicyRaisesNext]_vars

\* get_script_sig has raised ThreeKeysError on a valid key list of a generator
\* whose policy was never set
C13_Witness ==
    /\ Called("get_script_sig")
    /\ ValidKeyList(g_call.keys)
    /\ g_call.exc = "ThreeKeysError"
    /\ last_set = "none"
    /\ policy_flag = << >>
    /\ witness_flags = << >>

(***************************************************************************)
(* The Script stack machine, as far as the scripts of the generators use    *)
(* it: pushes, OP_IF, OP_ELSE and OP_ENDIF.  A stack item is a byte string. *)
(***************************************************************************)
Front(s) == SubSeq(s, 1, Len(s) - 1)
Last(s) == s[Len(s)]

\* a byte string is true unless all its bytes are zero
CastToBool(item) == \E n \in DOMAIN item : ~(item[n].kind = "byte" /\ item[n].n = 0)

NoPush == [ok |-> FALSE, item |-> << >>, used |-> 0]

\* the n bytes of data that follow a push opcode of hdr pieces
DataAt(rest, n, hdr) ==
    IF \E k \in 0..Len(rest) : ByteLen(SubSeq(rest, 1, k)) = n
    THEN LET k == CHOOSE j \in 0..Len(rest) : ByteLen(SubSeq(rest, 1, j)) = n
         IN  [ok |-> TRUE, item |-> SubSeq(rest, 1, k), used |-> hdr + k]
    ELSE NoPush

\* the push the script starts with: the item it pushes and the pieces it takes
PushAt(script) ==
    LET c == script[1] IN
    IF c.kind = "byte"
    THEN IF c.n \in 1..75 THEN DataAt(Tail(script), c.n, 1) ELSE NoPush
    ELSE IF c.kind # "op" THEN NoPush
    ELSE IF c.name = "OP_0" THEN [ok |-> TRUE, item |-> << >>, used |-> 1]
    ELSE IF \E v \in 1..16 : SmallIntOp(v) = <<c>>
    THEN [ok |-> TRUE, item |-> Byte(CHOOSE v \in 1..16 : SmallIntOp(v) = <<c>>), used |-> 1]
    ELSE IF c.name = "OP_PUSHDATA1" /\ Len(script) >= 2 /\ script[2].kind = "byte"
    THEN DataAt(SubSeq(script, 3, Len(script)), script[2].n, 2)
    ELSE IF c.name = "OP_PUSHDATA2" /\ Len(script) >= 2 /\ script[2].kind = "word"
    THEN DataAt(SubSeq(script, 3, Len(script)), script[2].n, 2)
    ELSE NoPush

\* the stack the script leaves when run on stack; exec holds, for every open
\* OP_IF, whether its current branch is the one taken
RECURSIVE Run(_, _, _)
Run(script, stack, exec) ==
    IF script = << >> THEN [ok |-> exec = << >>, stack |-> stack]
    ELSE LET c == script[1]
             rest == Tail(script)
             on == \A n \in DOMAIN exec : exec[n]
             failed == [ok |-> FALSE, stack |-> stack]
         IN  IF c.kind = "op" /\ c.name = "OP_IF"
             THEN IF ~on THEN Run(rest, stack, Append(exec, FALSE))
                  ELSE IF stack = << >> THEN failed
                  ELSE Run(rest, Front(stack), Append(exec, CastToBool(Last(stack))))
             ELSE IF c.kind = "op" /\ c.name = "OP_ELSE"
             THEN IF exec = << >> THEN failed
                  ELSE Run(rest, stack, [exec EXCEPT ![Len(exec)] = ~@])
             ELSE IF c.kind = "op" /\ c.name = "OP_ENDIF"
             THEN IF exec = << >> THEN failed ELSE Run(rest, stack, Front(exec))
             ELSE LET p == PushAt(script) IN
                  IF ~p.ok THEN failed
                  ELSE Run(SubSeq(script, p.used + 1, Len(script)),
                           IF on THEN Append(stack, p.item) ELSE stack, exec)

\* the script up to the OP_ENDIF that closes its first OP_IF
IfDepth(script, k) ==
    Cardinality({n \in 1..k : script[n].kind = "op" /\ script[n].name = "OP_IF"})
        - Cardinality({n \in 1..k : script[n].kind = "op" /\ script[n].name = "OP_ENDIF"})
IfPrefix(script) ==
    LET closed == {k \in 1..Len(script) : IfDepth(script, k) = 0}
    IN  IF closed = {} THEN script
        ELSE SubSeq(script, 1, CHOOSE k \in closed : \A j \in closed : k <= j)

\* the number of signatures the policy set last asks for
Threshold ==
    IF g_kind \in ThreeKeyKinds
    THEN CASE last_set = "alert" -> 1 [] last_set = "instant" -> 2 [] last_set = "recovery" -> 3
    ELSE CASE last_set = "alert" -> 1 [] last_set = "recovery" -> 2

\* C14: running the script-sig of get_script_sig and then the IF/ELSE prefix of
\* the redeem script it pushes takes every flag item off the stack and leaves,
\* above the placeholder and the signatures, the number of signatures of the
\* policy: three-key alert 1, instant 2, recovery 3; two-key alert 1,
\* recovery 2.
C14_FlagsSelectThreshold ==
    (Called("get_script_sig") /\ g_call.exc = "ok") =>
        LET pushed == Run(g_call.value, << >>, << >>)
            redeem == Last(pushed.stack)
            branch == Run(IfPrefix(redeem), Front(pushed.stack), << >>)
        IN  /\ pushed.ok
            /\ redeem = get_redeem_script(g_call.keys).value
            /\ branch.ok
            /\ branch.stack = <<<< >>>> \o g_call.sigs \o <<Byte(Threshold)>>

\* a three-key generator set to instant has returned a script-sig with two
\* signatures, whose flags leave 2
C14_Witness ==
    /\ Called("get_script_sig")
    /\ g_call.exc = "ok"
    /\ g_kind = "3K"
    /\ last_set = "instant"
    /\ Len(g_call.sigs) = 2
    /\ Run(IfPrefix(get_redeem_script(g_call.keys).value), <<<<>>, Byte(1), <<>>>>, << >>).stack
           = <<<< >>, Byte(2)>>

\* the shortest push of a key, a signature or a script: OP_0 for no bytes, the
\* length in one byte up to 75 bytes, OP_PUSHDATA1 and the length up to 255
MinimalPush(data) ==
    LET n == ByteLen(data) IN
    IF n = 0 THEN Op("OP_0")
    ELSE IF n <= 75 THEN Byte(n) \o data
    ELSE Op("OP_PUSHDATA1") \o Byte(n) \o data

RECURSIVE MinimalPushes(_)
MinimalPushes(items) ==
    IF items = << >> THEN << >>
    ELSE MinimalPushes(Front(items)) \o MinimalPush(Last(items))

\* C15: when a policy is set, get_script_sig(signatures, public_keys) returns
\* OP_0, then the minimal push of each signature in the order given, then the
\* opcodes of the policy flag, then the push of get_redeem_script(public_keys),
\* and nothing else.
C15_ScriptSigLayout ==
    (Called("get_script_sig") /\ last_set # "none" /\ ValidKeyList(g_call.keys)) =>
        /\ g_call.exc = "ok"
        /\ get_redeem_script(g_call.keys).exc = "ok"
        /\ g_call.value = Op("OP_0") \o MinimalPushes(g_call.sigs) \o policy_flag[1]
                            \o MinimalPush(get_redeem_script(g_call.keys).value)

\* a script-sig with two different signatures has been returned
C15_Witness ==
    /\ Called("get_script_sig")
    /\ g_call.exc = "ok"
    /\ last_set = "recovery"
    /\ Len(g_call.sigs) = 2
    /\ g_call.sigs[1] # g_call.sigs[2]
    /\ Len(g_call.value) > 3

\* the flags of a policy: the opcodes of the script-sig and witness_flags
FlagsOf(policy) ==
    IF g_kind \in ThreeKeyKinds
    THEN CASE policy = "alert" -> [ops |-> Op("OP_1"), witness |-> <<1>>]
           [] policy = "instant" -> [ops |-> Op("OP_1") \o Op("OP_0"), witness |-> <<1, 0>>]
           [] policy = "recovery" -> [ops |-> Op("OP_0") \o Op("OP_0"), witness |-> <<0, 0>>]
    ELSE CASE policy = "alert" -> [ops |-> Op("OP_1"), witness |-> <<1>>]
           [] policy = "recovery" -> [ops |-> Op("OP_0"), witness |-> <<0>>]

\* what the script-sig holds between the pushes of the signatures and the push
\* of the redeem script
EmittedFlags ==
    SubSeq(g_call.value,
           1 + Len(MinimalPushes(g_call.sigs)) + 1,
           Len(g_call.value) - Len(MinimalPush(get_redeem_script(g_call.keys).value)))

\* C16: after any calls of set_*, witness_flags and the flag opcodes of a
\* script-sig are those of the call made last, whatever was set before, and so
\* agree: two-key alert OP_1 and [1], recovery OP_0 and [0]; three-key alert
\* OP_1 and [1], instant OP_1 OP_0 and [1,0], recovery OP_0 OP_0 and [0,0].
C16_LastPolicyWins ==
    /\ last_set = "none" => witness_flags = << >>
    /\ last_set # "none" =>
        /\ witness_flags = FlagsOf(last_set).witness
        /\ (Called("get_script_sig") /\ g_call.exc = "ok") =>
               EmittedFlags = FlagsOf(last_set).ops

\* a set_* call on a generator whose policy is already set changes the flags
\* to its own, or leaves them if it is the same call again
C16_OverwritesNext ==
    (g_pc = "idle" /\ g_pc' = "idle" /\ last_set # "none") =>
        /\ witness_flags' = FlagsOf(last_set').witness
        /\ last_set' = last_set => UNCHANGED <<policy_flag, witness_flags>>

C16_FlagsOfLastCall == []C16_LastPolicyWins /\ [][C16_OverwritesNext]_vars

\* a three-key generator set to alert and then to recovery has returned a
\* script-sig
C16_Witness ==
    /\ Called("get_script_sig")
    /\ g_call.exc = "ok"
    /\ g_kind = "3KHW"
    /\ last_set = "recovery"
    /\ witness_flags = <<0, 0>>
    /\ EmittedFlags = Op("OP_0") \o Op("OP_0")

\* C17: TwoKeysScriptGenerator.get_redeem_script succeeds exactly when
\* public_keys is a list of one or two keys of which, the recovery key taken
\* out wherever it stands, exactly one is left; in every other case it raises
\* ThreeKeysError.
C17_TwoKeyDeduction ==
    (Called("get_redeem_script") /\ g_kind = "2K") =>
        LET items == g_call.keys.items
            deducible == /\ g_call.keys.islist
                         /\ Len(items) \in {1, 2}
                         /\ Cardinality({n \in DOMAIN items : items[n] # recovery_pubkey}) = 1
        IN  /\ (g_call.exc = "ok") <=> deducible
            /\ ~deducible => g_call.exc = "ThreeKeysError"

\* the call has raised ThreeKeysError on a list that holds a key other than the
\* recovery key twice
C17_Witness ==
    /\ Called("get_redeem_script")
    /\ g_kind = "2K"
    /\ g_call.keys.islist
    /\ Len(g_call.keys.items) = 2
    /\ g_call.keys.items[1] = g_call.keys.items[2]
    /\ g_call.keys.items[1] # recovery_pubkey
    /\ g_call.exc = "ThreeKeysError"

\* the lists whose length is not one the generator's class takes; the three-key
\* class reads public_keys[0], which an empty list does not have
TooLong(items) ==
    CASE g_kind = "2K" -> Len(items) > 2
      [] g_kind = "3K" -> Len(items) > 3
      [] g_kind = "2KHW" -> Len(items) > 2
      [] g_kind = "3KHW" -> Len(items) > 3
TooShort(items) ==
    CASE g_kind = "2K" -> Len(items) < 1
      [] g_kind = "3K" -> Len(items) < 1
      [] g_kind = "2KHW" -> Len(items) < 2
      [] g_kind = "3KHW" -> Len(items) < 3

\* C18: in every class, get_redeem_script and get_script_sig called with a key
\* list too long or too short for the class raise ThreeKeysError and no other
\* exception.
C18_WrongArityIsPolicyError ==
    (g_pc = "done" /\ g_call.op \in {"get_redeem_script", "get_script_sig"} /\ g_call.keys.islist
        /\ (TooLong(g_call.keys.items) \/ TooShort(g_call.keys.items))) =>
        g_call.exc = "ThreeKeysError"

\* what of C18 holds: every wrong length but that of the empty list given to
\* the three-key class
C18_RestHolds ==
    (g_pc = "done" /\ g_call.op \in {"get_redeem_script", "get_script_sig"} /\ g_call.keys.islist
        /\ (TooLong(g_call.keys.items) \/ TooShort(g_call.keys.items))
        /\ ~(g_kind = "3K" /\ g_call.keys.items = << >>)) =>
        g_call.exc = "ThreeKeysError"

\* the opcodes named, one after the other
RECURSIVE Ops(_)
Ops(names) == IF names = << >> THEN << >> ELSE Op(names[1]) \o Ops(Tail(names))

\* <key>: the length of the key in one byte, then the key
Pushed(key) == Byte(ByteLen(key)) \o key

\* the alert, instant and recovery keys of the script a call returns: the HW
\* classes take them from the list in this order, the others take their own
\* recovery and instant keys and, for the alert key, the two-key class the key
\* of the list that is not the recovery key and the three-key class the first
AlertKeyOf(items) ==
    IF g_kind = "2K" THEN items[CHOOSE n \in DOMAIN items : items[n] # recovery_pubkey]
    ELSE items[1]
InstantKeyOf(items) == IF g_kind = "3KHW" THEN items[2] ELSE instant_pubkey
RecoveryKeyOf(items) ==
    IF g_kind = "2KHW" THEN items[2] ELSE IF g_kind = "3KHW" THEN items[3] ELSE recovery_pubkey

\* C19: the redeem script is, in this order and with nothing else, for two keys
\* OP_IF OP_1 OP_ELSE OP_2 OP_ENDIF <alert> <recovery> OP_2 OP_CHECKMULTISIG
\* and for three keys OP_IF OP_1 OP_ELSE OP_IF OP_2 OP_ELSE OP_3 OP_ENDIF
\* OP_ENDIF <alert> <instant> <recovery> OP_3 OP_CHECKMULTISIG, whatever the
\* keys.
C19_RedeemScriptLayout ==
    (Called("get_redeem_script") /\ g_call.exc = "ok") =>
        LET items == g_call.keys.items IN
        g_call.value =
            IF g_kind \in ThreeKeyKinds
            THEN Ops(<<"OP_IF", "OP_1", "OP_ELSE", "OP_IF", "OP_2", "OP_ELSE", "OP_3", "OP_ENDIF",
                       "OP_ENDIF">>)
                 \o Pushed(AlertKeyOf(items)) \o Pushed(InstantKeyOf(items))
                 \o Pushed(RecoveryKeyOf(items))
                 \o Ops(<<"OP_3", "OP_CHECKMULTISIG">>)
            ELSE Ops(<<"OP_IF", "OP_1", "OP_ELSE", "OP_2", "OP_ENDIF">>)
                 \o Pushed(AlertKeyOf(items)) \o Pushed(RecoveryKeyOf(items))
                 \o Ops(<<"OP_2", "OP_CHECKMULTISIG">>)

\* a three-key generator has returned the redeem script of three different keys
C19_Witness ==
    /\ Called("get_redeem_script")
    /\ g_call.exc = "ok"
    /\ g_kind = "3KHW"
    /\ g_call.keys.items = <<Key("a"), Key("i"), Key("r")>>
    /\ Len(g_call.value) = 17

\* what the class without HW, constructed with the recovery key (and the
\* instant key) of the list, gives on the list a HW generator was called with
WithoutHW(public_keys) ==
    IF g_kind = "2KHW"
    THEN RedeemScript2K(public_keys.items[2], public_keys)
    ELSE RedeemScript3K(public_keys.items[2], public_keys.items[3], public_keys)

\* the call of a HW generator on a full list has returned or raised
CalledHW ==
    /\ g_pc = "done"
    /\ g_call.op \in {"get_redeem_script", "get_script_sig"}
    /\ g_kind \in {"2KHW", "3KHW"}
    /\ g_call.keys.islist
    /\ Len(g_call.keys.items) = IF g_kind = "2KHW" THEN 2 ELSE 3

\* the result of the same call, in the same policy, on the class without HW
SameCallWithoutHW ==
    IF g_call.op = "get_redeem_script" THEN WithoutHW(g_call.keys)
    ELSE ScriptSig(g_call.sigs, WithoutHW(g_call.keys))

\* C20 as stated: for all keys and every policy, the HW classes on the full
\* ordered list return the redeem script and the script-sig that the classes
\* without HW, constructed with the recovery (and instant) key of the list,
\* return on the same list.
C20_HWSameAsNonHW ==
    CalledHW => (g_call.exc = SameCallWithoutHW.exc /\ g_call.value = SameCallWithoutHW.value)

\* C20: the same, for the two-key classes when the alert key of the list is not
\* its recovery key, and for the three-key classes whatever the keys.
C20_HWSameAsNonHWDistinctKeys ==
    (CalledHW /\ (g_kind = "2KHW" => g_call.keys.items[1] # g_call.keys.items[2])) =>
        (g_call.exc = SameCallWithoutHW.exc /\ g_call.value = SameCallWithoutHW.value)

\* a two-key HW generator set to alert has returned the script-sig that
\* TwoKeysScriptGenerator returns on the same list
C20_Witness ==
    /\ CalledHW
    /\ g_kind = "2KHW"
    /\ g_call.op = "get_script_sig"
    /\ g_call.exc = "ok"
    /\ g_call.keys.items[1] # g_call.keys.items[2]
    /\ g_call.sigs # << >>
    /\ SameCallWithoutHW = Returns(g_call.value)

\* the mode queries of the generator's class that are true
Queries == IF g_kind \in ThreeKeyKinds THEN {"alert", "instant", "recovery"} ELSE {"alert", "recovery"}
QueryOf(policy) ==
    CASE policy = "alert" -> is_alert_mode
      [] policy = "instant" -> is_instant_mode
      [] policy = "recovery" -> is_recovery_mode
TrueQueries == {policy \in Queries : QueryOf(policy)}

\* C21: before any set_* call no mode query is true; after set_* calls exactly
\* one is true, that of the set_* call made last; a call of a query returns
\* that answer and changes neither the policy flag nor witness_flags.
C21_ModesState ==
    /\ TrueQueries = IF last_set = "none" THEN {} ELSE {last_set}
    /\ \A policy \in Queries :
           Called("is_" \o policy \o "_mode") => (g_call.value <=> (last_set = policy))

C21_QueryNext ==
    (\E policy \in Queries : CalledNext("is_" \o policy \o "_mode")) =>
        UNCHANGED <<policy_flag, witness_flags>>

C21_ModesExclusiveAndPure == []C21_ModesState /\ [][C21_QueryNext]_vars

\* is_recovery_mode has returned true on a three-key generator set to instant
\* and then to recovery
C21_Witness ==
    /\ Called("is_recovery_mode")
    /\ g_call.value = TRUE
    /\ g_kind = "3K"
    /\ last_set = "recovery"
    /\ ~is_instant_mode
    /\ ~is_alert_mode

(***************************************************************************)
(* One proof task: the snapshot, the requests, the end.                     *)
(***************************************************************************)
\* proof task t, awaiting the server's answer, takes its last step and does
\* not raise
ProofEnds(t) ==
    /\ t \in tasks
    /\ t.kind = "proof"
    /\ t.pc = "fetch"
    /\ tasks' = tasks \ {t}
    /\ GroupRunning'

\* the requests of a task are sent in the step that reads the header of the
\* task's height, with bhi_lock free, and the task keeps that header
C22_SnapshotBeforeFetchNext ==
    /\ \A u \in tasks' :
        (u.kind = "proof" /\ u.pc = "fetch" /\ u \notin tasks) =>
            /\ ~bhi_lock
            /\ \E t \in tasks :
                /\ t.id = u.id
                /\ t.pc \in {"start", "lock"}
                /\ u.header = ReadHeader(cur_chain, t.height)
                /\ u.header # << >>
    /\ \A t \in tasks :
        (t.kind = "proof" /\ t.pc = "fetch") => \A u \in tasks' : u.id = t.id => u = t

\* what a task that ends caches and reports is the merkle_root, the hash and
\* the timestamp of the header it keeps
C22_SnapshotReportedNext ==
    \A t \in tasks :
        ProofEnds(t) =>
            /\ merkle_roots'[t.tx] = t.header[1].merkle_root
            /\ verified_tx'[t.tx].header_hash = hash_header(t.header[1])
            /\ verified_tx'[t.tx].timestamp = t.header[1].timestamp
            /\ verified_tx'[t.tx].height = t.height

\* the answer of the server is checked against the header the task keeps: the
\* transaction, at the position reported, is under the merkle_root of that
\* header
C22_CheckedAgainstSnapshotNext ==
    \A t \in tasks :
        (ProofEnds(t) /\ ~skipmerklecheck) =>
            \E branch \in KnownBranches :
                LET res == HashMerkleRoot(branch, TxHash(TxName(t.tx)), verified_tx'[t.tx].txpos, {})
                IN  res.err = "ok" /\ res.root = t.header[1].merkle_root

\* C22, as stated: in a proof task the header of the claimed height is read
\* before the requests are sent, and what the server answers is checked
\* against that header, and cached from it and reported with it, never with a
\* header read later.
C22_OneSnapshotPerTask ==
    [][C22_SnapshotBeforeFetchNext /\ C22_SnapshotReportedNext /\ C22_CheckedAgainstSnapshotNext]_vars

\* what of C22 holds: all but the check of the answer against the header
C22_RestHolds == [][C22_SnapshotBeforeFetchNext /\ C22_SnapshotReportedNext]_vars

\* proof task t reads its header in this step: it was before line 124 and is
\* past it, awaiting the server or raising
ReadsHeader(t) ==
    /\ t \in tasks
    /\ t.kind = "proof"
    /\ t.pc \in {"start", "lock"}
    /\ \/ \E u \in tasks' : u.id = t.id /\ u.pc = "fetch"
       \/ raised = NoRaise /\ raised'.id = t.id

\* a task has bhi_lock only within the step that reads its header: the step
\* is taken with the lock free and leaves it free, and so does every other
\* step of a task
C23_LockNext ==
    /\ \A t \in tasks : ReadsHeader(t) => (~bhi_lock /\ ~bhi_lock')
    /\ tasks' # tasks => bhi_lock' = bhi_lock

\* with tasks awaiting the server, header sync can take the lock and, when it
\* does not hold it, every task that has not read its header can read it
C23_LockState ==
    (GroupRunning /\ AtSuspension /\ \E t \in tasks : t.kind = "proof" /\ t.pc = "fetch") =>
        /\ ~bhi_lock => ENABLED NetLock
        /\ ~bhi_lock =>
               \A u \in tasks : (u.kind = "proof" /\ u.pc \in {"start", "lock"}) => ENABLED ProofSnapshot(u)

\* C23: a proof task holds bhi_lock only while it reads the header of its
\* height: not while it awaits the server, so a task that awaits never keeps
\* another from reading its header, and no header is read while header sync or
\* a reorganization holds the lock.
C23_LockOnlyForSnapshot == []C23_LockState /\ [][C23_LockNext]_vars

\* header sync holds the lock while one task awaits the server and another
\* waits for the lock
C23_Witness ==
    /\ bhi_lock
    /\ GroupRunning
    /\ \E t \in tasks : t.kind = "proof" /\ t.pc = "fetch"
    /\ \E u \in tasks : u.kind = "proof" /\ u.pc = "lock"

(***************************************************************************)
(* The language of a subscription.                                          *)
(***************************************************************************)
\* str holds part, in one piece
Contains(str, part) ==
    \E k \in 0..(Len(str) - Len(part)) : SubSeq(str, k + 1, k + Len(part)) = part

\* the lower-case letter of a letter
SmallLetter(c) == IF c \in {"e", "E"} THEN "e" ELSE "n"

ServerPositions(t) ==
    {IndexOf(b.tx, TxName(t.tx)) :
        b \in {c \in ServerBlocks(t.tx, t.height) : c.height = t.height /\ InSeq(c.tx, TxName(t.tx))}}

\* the step of a task that ends with its proof accepted
C25_ProofAccepted(t) == ProofEnds(t) /\ verified_tx'[t.tx].txpos # -1

\* an entry of merkle_roots is written in this step
C25_RootWritten(tx) ==
    /\ tx \in DOMAIN merkle_roots'
    /\ tx \notin DOMAIN merkle_roots \/ merkle_roots'[tx] # merkle_roots[tx]

C25_EffectsTogetherNext ==
    /\ \A t \in tasks :
        C25_ProofAccepted(t) =>
            /\ merkle_roots' = Put(merkle_roots, t.tx, t.header[1].merkle_root)
            /\ requested_merkle' = requested_merkle \ {t.tx}
            /\ \E pos \in ServerPositions(t) :
                 verified_tx' = Put(verified_tx, t.tx,
                                    [height |-> t.height,
                                     timestamp |-> t.header[1].timestamp,
                                     txpos |-> pos,
                                     header_hash |-> hash_header(t.header[1]),
                                     txtype |-> t.txtype])
            /\ unverified_tx' = Drop(unverified_tx, {t.tx})
    /\ \A tx \in TxIds :
        C25_RootWritten(tx) =>
            /\ \E t \in tasks : t.tx = tx /\ ProofEnds(t)
            /\ tx \notin requested_merkle'
            /\ tx \in DOMAIN verified_tx'

\* C25: a proof that is accepted has its three effects in one step of the
\* task, with nothing running in between: the merkle_root of the header the
\* task keeps is cached in merkle_roots, the transaction leaves
\* requested_merkle, and one TxMinedInfo is delivered to the wallet, with the
\* claimed height, the hash and the timestamp of that header, the position of
\* the transaction in the server's block and the type the task was given.
C25_EffectsTogether == [][C25_EffectsTogetherNext]_vars

\* a proof has been accepted with the override off
C25_Witness ==
    /\ ~skipmerklecheck
    /\ GroupRunning
    /\ \E tx \in DOMAIN merkle_roots \cap DOMAIN verified_tx :
        /\ tx \notin requested_merkle
        /\ tx \notin DOMAIN unverified_tx
        /\ verified_tx[tx].txpos = 1
        /\ TasksOf(tx) = {}

(***************************************************************************)
(* The scan and the main loop.                                              *)
(***************************************************************************)
\* the height of tx is one the scan skips: no header can be there
OutOfRange(tx) ==
    unverified_tx[tx].height <= 0 \/ unverified_tx[tx].height > ChainHeight(blockchain)

\* C26: the scan dispatches no task, proof or mark, and puts no transaction in
\* requested_merkle, for a transaction whose height is <= 0 or above the
\* height of the chain the verifier follows, whatever its type.
C26_NoDispatchOutOfRangeNext ==
    main_pc = "scan" =>
        \A tx \in DOMAIN unverified_tx :
            OutOfRange(tx) =>
                /\ \A t \in tasks' : t.tx = tx => t \in tasks
                /\ tx \in requested_merkle' => tx \in requested_merkle

C26_NoDispatchOutOfRange == [][C26_NoDispatchOutOfRangeNext]_vars

\* a scan has just dispatched a task and has left alone an exempt transaction
\* above the height of the chain followed
C26_Witness ==
    /\ main_pc = "loop"
    /\ \E t \in tasks : t.pc = "start"
    /\ \E tx \in DOMAIN unverified_tx :
        /\ unverified_tx[tx].height > ChainHeight(blockchain)
        /\ Exempt(unverified_tx[tx].txtype)
        /\ TasksOf(tx) = {}
        /\ tx \notin requested_merkle

\* proof task t takes a step in which verify_tx_is_in_block raises a
\* MerkleVerificationFailure: its header is missing when it reads it, or the
\* server's answer is refused
C27_NoHeader(t) ==
    /\ t \in tasks
    /\ t.kind = "proof"
    /\ t.pc \in {"start", "lock"}
    /\ ~bhi_lock
    /\ ReadHeader(cur_chain, t.height) = << >>
    /\ \A u \in tasks' : u # t

C27_Refused(t) ==
    /\ ProofEnds(t)
    /\ verified_tx'[t.tx].txpos = -1

\* the task ends as on a success, with position -1
C27_EndsLikeSuccess(t) ==
    /\ GroupRunning'
    /\ raised' = raised
    /\ tasks' = tasks \ {t}
    /\ t.tx \notin requested_merkle'
    /\ t.tx \in DOMAIN merkle_roots'
    /\ t.tx \in DOMAIN verified_tx'
    /\ verified_tx'[t.tx].txpos = -1

C27_NoDisconnectNext ==
    \A t \in tasks :
        (t.kind = "proof" /\ raised = NoRaise /\ raised'.id = t.id) => raised'.cause = "none"

\* C27, as stated: with skipmerklecheck set, every MerkleVerificationFailure
\* of a proof task, MissingBlockHeader included, is suppressed without a
\* disconnect and the task ends as on a success: the transaction leaves
\* requested_merkle, its root is cached and it is delivered with position -1.
C27_OverrideSuppressesEveryFailure ==
    [][skipmerklecheck =>
         /\ C27_NoDisconnectNext
         /\ \A t \in tasks : (C27_NoHeader(t) \/ C27_Refused(t)) => C27_EndsLikeSuccess(t)]_vars

\* what of C27 holds: a refused answer of the server is suppressed so
C27_RestHolds ==
    [][skipmerklecheck =>
         \A t \in tasks :
             /\ (t.kind = "proof" /\ t.pc = "fetch" /\ raised = NoRaise /\ raised'.id = t.id)
                    => raised'.cause = "none"
             /\ C27_Refused(t) =>
                    (C27_EndsLikeSuccess(t) /\ merkle_roots'[t.tx] = t.header[1].merkle_root)]_vars

\* the scan runs next after the rollback: in between nothing else runs, and
\* the chain the verifier follows is the one the network had when the cycle
\* began
C28_ScanState == main_pc = "scan" => blockchain = cur_chain

C28_CycleNext ==
    \* the rollback for a change of chain is applied in the step that sees it,
    \* and that step dispatches nothing
    /\ (main_pc = "loop" /\ main_pc' = "scan") =>
           /\ blockchain' = cur_chain
           /\ cur_chain # blockchain =>
                  \A tx \in UndoSet(LastCommonHeight(cur_chain, blockchain)) :
                      tx \notin DOMAIN verified_tx' /\ tx \notin DOMAIN merkle_roots'
           /\ tasks' = tasks
           /\ requested_merkle' \subseteq requested_merkle
    \* the step after it is the scan
    /\ main_pc = "scan" => (main_pc' = "loop" /\ UNCHANGED <<vars_net, vars_wallet, blockchain>>)
    \* tasks are dispatched by the scan only, for heights of the chain the
    \* network had at the rollback, with the header there for a proof
    /\ \A t \in tasks' \ tasks :
           t.pc = "start" =>
               /\ main_pc = "scan"
               /\ t.height = unverified_tx[t.tx].height
               /\ t.height >= 1
               /\ t.height <= ChainHeight(cur_chain)
               /\ t.kind = "proof" => ReadHeader(cur_chain, t.height) # << >>

\* C28: in every cycle of the main loop the rollback runs before the scan and
\* nothing runs in between, so the scan tests local height and header presence
\* on the chain network.blockchain() gave at the start of the cycle, and no
\* proof is dispatched in a cycle before the rollback for the change of chain
\* seen at its start is applied.
C28_RollbackThenScan == []C28_ScanState /\ [][C28_CycleNext]_vars

\* the rollback for a reorganization has just undone a verification and the
\* scan is about to dispatch
C28_Witness ==
    /\ main_pc = "scan"
    /\ GroupRunning
    /\ blockchain = "B"
    /\ redone # {}
    /\ \E tx \in TxIds : Eligible(tx)

(***************************************************************************)
(* The script generators: the key list and the policy.                      *)
(***************************************************************************)
\* the lists that hold the key alert and, or not, before it or after it, the
\* recovery key of the generator
ListsOf(alert) == {<<alert>>, <<alert, recovery_pubkey>>, <<recovery_pubkey, alert>>}

\* C29: TwoKeysScriptGenerator.get_redeem_script does not depend on the place
\* of the recovery key r in the list nor on its being there: for an alert key
\* a other than r, the calls with [a], [a, r] and [r, a] return the same
\* script, create_redeem_script(a, r).
C29_RecoveryKeyAnywhere ==
    (Called("get_redeem_script") /\ g_kind = "2K" /\ g_call.keys.islist) =>
        \A a \in Keys \ {recovery_pubkey} :
            g_call.keys.items \in ListsOf(a) =>
                /\ g_call.exc = "ok"
                /\ g_call.value = create_redeem_script2(a, recovery_pubkey)
                /\ \A items \in ListsOf(a) :
                       RedeemScript2K(recovery_pubkey, [islist |-> TRUE, items |-> items])
                           = Returns(g_call.value)

\* the call with the recovery key first has returned the script of the alert
\* key and the recovery key
C29_Witness ==
    /\ Called("get_redeem_script")
    /\ g_kind = "2K"
    /\ g_call.keys = [islist |-> TRUE, items |-> <<Key("r"), Key("a")>>]
    /\ recovery_pubkey = Key("r")
    /\ g_call.exc = "ok"
    /\ g_call.value = create_redeem_script2(Key("a"), Key("r"))

\* the key lists of up to three keys, and the tuples
ShortKeyInputs == {k \in KeyInputs : Len(k.items) <= 3}

\* C30: for one generator and one key list get_redeem_script returns the same
\* script, or raises the same, before any set_* call and after any calls of
\* set_* and get_script_sig, and neither get_redeem_script nor get_script_sig
\* changes the policy flag or witness_flags.
C30_RedeemScriptFixedNext ==
    /\ \A k \in ShortKeyInputs : get_redeem_script(k)' = get_redeem_script(k)
    /\ CalledNext("get_redeem_script") =>
           /\ g_call'.exc = get_redeem_script(g_call'.keys).exc
           /\ g_call'.value = get_redeem_script(g_call'.keys).value
    /\ (CalledNext("get_redeem_script") \/ CalledNext("get_script_sig")) =>
           UNCHANGED <<policy_flag, witness_flags>>

C30_RedeemScriptFixed == [][C30_RedeemScriptFixedNext]_vars

\* a three-key generator set to instant has returned the redeem script it
\* returns with no policy set
C30_Witness ==
    /\ Called("get_redeem_script")
    /\ g_kind = "3K"
    /\ last_set = "instant"
    /\ policy_flag # << >>
    /\ g_call.keys = [islist |-> TRUE, items |-> <<Key("a")>>]
    /\ g_call.value = create_redeem_script3(Key("a"), Key("i"), Key("r"))

(***************************************************************************)
(* The pending markers and the tasks in flight.                             *)
(***************************************************************************)
\* SPV.is_up_to_date
is_up_to_date == requested_merkle = {}

\* the proof tasks of tx that have not finished
ProofTasksOf(tx) == {t \in TasksOf(tx) : t.kind = "proof"}

C31_MarkedHasTask ==
    /\ \A tx \in requested_merkle : ProofTasksOf(tx) # {}
    /\ (\A tx \in TxIds : ProofTasksOf(tx) = {}) => is_up_to_date

\* C31, as stated: every transaction in requested_merkle has a proof task in
\* flight; once every spawned proof task has finished, by success or by
\* failure, requested_merkle is empty and is_up_to_date() is true.
C31_PendingHasTaskInFlight == C31_MarkedHasTask

\* what of C31 holds: as long as no task of the group has raised, a marker has
\* its task in flight
C31_RestHolds == GroupRunning => C31_MarkedHasTask

\* C32, as stated: no transaction has two proof tasks in flight, whoever
\* calls remove_spv_proof_for_tx while a task of it has not finished.
C32_OneTaskPerTx == \A tx \in TxIds : Cardinality(ProofTasksOf(tx)) <= 1

\* what of C32 holds: two tasks of one transaction take a call of
\* remove_spv_proof_for_tx from outside the job
C32_RestHolds == removals = 0 => \A tx \in TxIds : Cardinality(ProofTasksOf(tx)) <= 1

(***************************************************************************)
(* verify_tx_is_in_block.                                                   *)
(***************************************************************************)
\* MissingBlockHeader is a MerkleVerificationFailure too (line 45)
C33_IsFailure(err) == IsMerkleVerificationFailure(err) \/ err = "MissingBlockHeader"

\* the block the server reports for the transaction is at the claimed height
\* and lists the transaction
C33_InReportedBlock ==
    /\ v_args.answer.kind = "block"
    /\ v_args.answer.block.height = v_args.height
    /\ InSeq(v_args.answer.block.tx, TxName(v_args.tx))

C33_SucceedsIff ==
    /\ v_result.err = "ok" <=> (v_args.header # << >> /\ C33_InReportedBlock)
    /\ v_result.err = "ok" => v_result.pos = IndexOf(v_args.answer.block.tx, TxName(v_args.tx))
    /\ v_args.header = << >> <=> v_result.err = "MissingBlockHeader"

\* C33, as stated: the call succeeds if and only if the header is present and
\* the block the server reports is at the claimed height and lists the
\* transaction; then it returns the index of the transaction in the list, and
\* otherwise it raises a MerkleVerificationFailure, MissingBlockHeader when
\* the header is absent.
C33_SuccessOrMerkleFailure ==
    v_pc = "done" =>
        /\ C33_SucceedsIff
        /\ v_result.err # "ok" => C33_IsFailure(v_result.err)

\* C33, amended: as above, but when the header is present and get_transaction
\* or get_block raises, the call raises that exception as it is, which is no
\* MerkleVerificationFailure.
C33_SuccessOrFailureOrRequestError ==
    v_pc = "done" =>
        /\ C33_SucceedsIff
        /\ (v_result.err # "ok" /\ (v_args.header = << >> \/ v_args.answer.kind = "block"))
               => C33_IsFailure(v_result.err)
        /\ (v_args.header # << >> /\ v_args.answer.kind = "error")
               => (v_result.err = "NetworkError" /\ ~C33_IsFailure(v_result.err))

\* the call has succeeded on a block of the claimed height that lists the
\* transaction second
C33_Witness ==
    /\ v_pc = "done"
    /\ v_args.header # << >>
    /\ C33_InReportedBlock
    /\ v_result = [err |-> "ok", pos |-> 1]

(***************************************************************************)
(* The scan and the headers.                                                *)
(***************************************************************************)
\* the step is a scan
ScanStep == GroupRunning /\ main_pc = "scan" /\ main_pc' = "loop"

\* the scan gets to line 98 for tx and reads no header there
C34_Headerless(tx) ==
    /\ Eligible(tx)
    /\ ~Exempt(unverified_tx[tx].txtype)
    /\ ReadHeader(blockchain, unverified_tx[tx].height) = << >>

C34_HeaderlessNext ==
    ScanStep =>
        \A tx \in TxIds :
            C34_Headerless(tx) =>
                /\ \A t \in tasks' \ tasks : t.tx # tx
                /\ tx \notin requested_merkle'
                /\ unverified_tx[tx].height \in chunk_tasks' \ chunk_tasks
                       => unverified_tx[tx].height < MaxCheckpoint
                /\ unverified_tx[tx].height < MaxCheckpoint
                       => unverified_tx[tx].height \in chunk_tasks'
                /\ Eligible(tx)'

C35_MarkNext ==
    /\ \A t \in tasks' \ tasks :
           t.kind = "mark" => ReadHeader(blockchain, t.height) # << >>
    /\ \A t \in tasks :
           t.kind = "mark" => ~(raised = NoRaise /\ raised'.id = t.id)

\* C35, as stated: the scan dispatches a mark task for an exempt transaction
\* only with the local header of its height present, and no mark task fails
\* for want of a header.
C35_MarkOnlyWithHeader == [][C35_MarkNext]_vars

\* what of C35 holds: a mark task is dispatched by the scan only, for an
\* exempt transaction at a height from 1 to the local height
C35_RestHolds ==
    [][\A t \in tasks' \ tasks :
           t.kind = "mark" =>
               /\ ScanStep
               /\ Exempt(t.txtype)
               /\ t.height >= 1
               /\ t.height <= ChainHeight(blockchain)]_vars

(***************************************************************************)
(* ThreeKeysScriptGenerator.get_redeem_script and the rest of the list.     *)
(***************************************************************************)
\* the lists the three-key generator accepts
C36_Accepted == {k \in KeyInputs : k.islist /\ Len(k.items) \in 1..3}

\* C36: the three-key generator builds the redeem script from the first
\* element of an accepted list, as the alert key, and from its own instant
\* and recovery keys: every accepted list with the same first element gives
\* the script of the call, whatever its other elements are.
C36_FirstKeyOnly ==
    (Called("get_redeem_script") /\ g_kind = "3K" /\ g_call.keys \in C36_Accepted) =>
        /\ g_call.exc = "ok"
        /\ g_call.value = create_redeem_script3(g_call.keys.items[1], instant_pubkey, recovery_pubkey)
        /\ \A k \in C36_Accepted :
               k.items[1] = g_call.keys.items[1] =>
                   get_redeem_script(k) = Returns(g_call.value)

\* a call with a list whose second and third elements are not the keys of the
\* generator
C36_Witness ==
    /\ Called("get_redeem_script")
    /\ g_kind = "3K"
    /\ g_call.keys = [islist |-> TRUE, items |-> <<Key("a"), Key("r"), Key("i")>>]
    /\ g_call.value = create_redeem_script3(Key("a"), Key("i"), Key("r"))

(***************************************************************************)
(* The email notification dialogs.                                          *)
(***************************************************************************)
RunsNotification == d_kind \in {"wizard", "dialog"}
Authenticated == d_api = [call |-> "authenticate", outcome |-> "ok"]
AlreadySubscribed == d_api = [call |-> "subscribe", outcome |-> "EmailAlreadySubscribedError"]

\* an email is in the wallet only once the PIN was authenticated and the run
\* has ended on it, or the server has said the email is subscribed already
C37_State ==
    (RunsNotification /\ notification_email # "") =>
        /\ notification_email = d_email
        /\ \/ d_pc = "end" /\ d_method = "confirm_pin" /\ d_result = "NEXT" /\ Authenticated
           \/ d_method = "choose_email" /\ d_result = "SHOW_EMAIL_SUBSCRIBED" /\ AlreadySubscribed

C37_Next ==
    RunsNotification =>
        \* the email is written by the end of a run whose PIN view returned NEXT,
        \* or by the email view when the server says it is subscribed already
        /\ notification_email' # notification_email =>
               /\ notification_email' = d_email'
               /\ \/ d_pc = "returned" /\ d_method = "confirm_pin" /\ d_result = "NEXT" /\ Authenticated
                  \/ d_pc = "email" /\ d_pc' = "returned" /\ d_result' = "SHOW_EMAIL_SUBSCRIBED"
                         /\ AlreadySubscribed'
        \* the PIN view returns NEXT for an authenticated PIN only, and a PIN
        \* that is rejected gets the PIN view again
        /\ (d_pc = "pin" /\ d_pc' = "returned" /\ d_result' = "NEXT") => Authenticated'
        /\ (d_pc = "returned" /\ d_method = "confirm_pin" /\ d_result = "CONTINUE") => d_pc' = "pin"
        \* Back from the PIN view
        /\ (d_pc = "returned" /\ d_method = "confirm_pin" /\ d_result = "BACK") =>
               (d_pc' = "email" /\ d_method' = "choose_email")
        \* cancel, and the skip checkbox
        /\ (d_pc = "returned" /\ d_result \in {"ERROR", "BACK"} /\ d_pc' = "end") =>
               notification_email' = ""

\* C37: run_notification writes the notification email to the wallet only
\* when the PIN view has returned NEXT for an authenticated PIN or the server
\* has reported the email as subscribed already; a run ended by cancel or by
\* the skip checkbox, and a run whose PIN is still rejected, write nothing;
\* Back from the PIN view shows the email view again.
C37_EmailWrittenOnlyWhenConfirmed == []C37_State /\ [][C37_Next]_vars

\* the wizard has ended with the PIN for e2 authenticated
C37_Witness ==
    /\ d_kind = "wizard"
    /\ d_pc = "end"
    /\ d_result = "NEXT"
    /\ Authenticated
    /\ notification_email = "e2"

PinRestarts == {"NoMorePINAttemptsError", "TokenError"}

\* the email of the wallet is the one the dialog began with until a run ends
\* on NEXT from the confirmation of the new address
C38_State ==
    (d_kind = "update" /\ notification_email # d_email) =>
        /\ notification_email = d_new_email
        /\ d_pc = "end"
        /\ d_method = "confirm_new_pin"
        /\ d_result = "NEXT"
        /\ Authenticated

C38_Next ==
    d_kind = "update" =>
        \* the save
        /\ notification_email' # notification_email =>
               /\ d_pc = "returned" /\ d_method = "confirm_new_pin" /\ d_result = "NEXT"
               /\ notification_email' = d_new_email
        \* a confirmation returns NEXT for an authenticated PIN only, and the
        \* new address is confirmed after the current one
        /\ (d_pc = "pin" /\ d_pc' = "returned" /\ d_result' = "NEXT") => Authenticated'
        /\ (d_pc = "returned" /\ d_pc' = "pin" /\ d_method' = "confirm_new_pin") =>
               \/ d_method = "confirm_pin" /\ d_result = "NEXT" /\ d_view'.email = d_new_email
               \/ d_method = "confirm_new_pin" /\ d_result = "CONTINUE"
        /\ (d_pc = "returned" /\ d_method = "confirm_pin" /\ d_result = "NEXT") =>
               (d_pc' = "pin" /\ d_method' = "confirm_new_pin" /\ UNCHANGED notification_email)
        \* a PIN failure that makes the server send a new code
        /\ (d_pc = "pin" /\ d_pc' = "returned" /\ d_result' \notin {"NEXT", "BACK", "ERROR"}
               /\ d_api'.outcome \in PinRestarts) =>
               d_result' = "SKIP_EMAIL_VIEW"
        /\ (d_pc = "returned" /\ d_result = "SKIP_EMAIL_VIEW") =>
               /\ d_method \in {"confirm_pin", "confirm_new_pin"}
               /\ d_pc' = "pin"
               /\ d_method' = "confirm_pin"
               /\ d_view'.email = d_email
               /\ UNCHANGED notification_email
        \* cancel
        /\ (d_pc = "returned" /\ d_result = "ERROR") =>
               (d_pc' = "end" /\ UNCHANGED notification_email)

\* C38: run_update saves the new email only when the confirmation of the
\* current address and then the confirmation of the new address have
\* returned NEXT; a PIN failure with NoMorePINAttemptsError or TokenError in
\* either confirmation goes back to the confirmation of the current address
\* without the email view; cancel at any view saves nothing.
C38_SavedAfterBothConfirmations == []C38_State /\ [][C38_Next]_vars

\* the update has ended with both addresses confirmed and e2 saved
C38_Witness ==
    /\ d_kind = "update"
    /\ d_pc = "end"
    /\ d_method = "confirm_new_pin"
    /\ d_result = "NEXT"
    /\ notification_email = "e2"
    /\ d_email = "e1"

\* authenticate has failed and the confirmation has returned
AuthenticationFailed ==
    /\ d_pc = "pin"
    /\ d_pc' = "returned"
    /\ d_result' \notin {"NEXT", "BACK", "ERROR"}
    /\ d_api'.call = "authenticate"

\* the flag is never set while a PIN view is shown, and a view makes at most
\* one automatic request
C39_State ==
    /\ d_pc = "pin" => ~d_auto
    /\ d_view.auto \in {0, 1}
    /\ d_view.auto = 1 => d_pc = "pin"

C39_Next ==
    \* the failure sets the flag or not
    /\ AuthenticationFailed =>
           /\ d_error' = d_api'.outcome
           /\ d_auto' = (d_api'.outcome \in PinRestarts)
           /\ d_auto' \/ d_result' = "CONTINUE"
    \* the next PIN view with the flag set
    /\ (d_pc = "returned" /\ d_auto) =>
           /\ d_pc' = "pin"
           /\ d_view'.auto = 1
           /\ d_view'.pending
           /\ ~d_auto'
    \* the PIN view shown again with the message
    /\ (d_pc = "returned" /\ ~d_auto /\ d_result = "CONTINUE"
          /\ d_method \in {"confirm_pin", "confirm_new_pin"}) =>
           /\ d_pc' = "pin"
           /\ d_method' = d_method
           /\ d_view'.error = d_error
           /\ d_view'.auto = 0
           /\ ~d_view'.pending
    \* no automatic request while the view is shown
    /\ (d_pc = "pin" /\ d_pc' = "pin") => d_view'.auto = d_view.auto

\* C39: after authenticate fails with NoMorePINAttemptsError or TokenError
\* the next PIN view makes one automatic resend request and clears
\* _auto_resend_request; after any other error the PIN view is shown again
\* with the error message and makes no automatic request.
C39_AutoResendOnceAfterRestart == []C39_State /\ [][C39_Next]_vars

\* a wizard's PIN view that has made its automatic request after the PINs ran out
C39_Witness ==
    /\ d_kind = "wizard"
    /\ d_pc = "pin"
    /\ d_view.auto = 1
    /\ d_view.pending
    /\ ~d_auto
    /\ d_api = [call |-> "authenticate", outcome |-> "NoMorePINAttemptsError"]

\* a response of 400 or more, a timeout, a connection error, an undecodable body
C40_ErrorCase ==
    \/ h_fun.fun.kind = "raises" /\ h_fun.fun.exc \in {"ConnectTimeout", "ReadTimeout", "ConnectionError"}
    \/ h_fun.fun.kind = "response" /\ h_fun.fun.status_code >= 400
    \/ h_fun.fun.kind = "response" /\ h_fun.fun.body.kind = "undecodable"

C40_RaisesApiError == h_outcome.kind = "raise" /\ h_outcome.exc \in ApiErrors

C40_ReturnsBody ==
    /\ h_outcome.kind = "return"
    /\ h_fun.fun.kind = "response"
    /\ h_fun.fun.status_code < 400
    /\ h_outcome.value = h_fun.fun.body

\* C40: a call of a method of Connector returns the parsed body of a response
\* with a status below 400 or raises EmailNotificationApiError or a subclass
\* of it; a status of 400 or more, a connect or read timeout, a connection
\* error and an undecodable body end in that exception, never in a return
\* value or in an exception of another type.
C40_ReturnsBodyOrRaisesApiError ==
    h_pc = "done" =>
        /\ C40_ReturnsBody \/ C40_RaisesApiError
        /\ C40_ErrorCase => C40_RaisesApiError

\* the bodies of the service as the code expects them: an object, 'msg' a
\* string, 'Trials left' followed by the number
C40_AsExpected ==
    /\ h_fun.fun.kind = "raises" => h_fun.fun.exc # "ChunkedEncodingError"
    /\ h_fun.fun.kind = "response" =>
           /\ h_fun.fun.body.kind # "array"
           /\ (h_fun.fun.body.kind = "object" /\ h_fun.fun.status_code >= 400) =>
                  LET msg == Get(h_fun.fun.body.data, "msg", String(<< >>))
                  IN  /\ msg.str
                      /\ StartsWith(msg, "Trials left") => FindNumbers(msg) # << >>

\* what holds of the claim: with such a request the two outcomes are the only ones
C40_RestHolds == (h_pc = "done" /\ C40_AsExpected) => C40_ReturnsBodyOrRaisesApiError

====
